---- MODULE Spec2Model ----
(***************************************************************************)
(* A model of the POS backend (lszku/pos-py): the relational store (users, *)
(* products, stock, sales, sale_items), the repositories and services over *)
(* it, and the HTTP route handlers that call them.                         *)
(*                                                                         *)
(* Conventions                                                             *)
(*  - a table is a sequence of rows in insertion order; a row is a record  *)
(*    whose id is the generated primary key;                               *)
(*  - Python's None / SQL NULL in a string column is the string None, an   *)
(*    Optional value that may hold a number is <<>> (absent) or <<v>>;     *)
(*  - money is an integer number of cents (the Numeric(10, 2) columns);    *)
(*  - a handler is one action: it reads the request, runs the service      *)
(*    code, commits what the code commits, and leaves the HTTP response in *)
(*    resp;                                                                *)
(*  - an exception that no handler catches is the response 500.            *)
(***************************************************************************)
EXTENDS Integers, Sequences, FiniteSets, TLC

VARIABLES
    users,       \* table users        (models/user.py)
    products,    \* table products     (models/product.py)
    stock,       \* table stock        (models/stock.py)
    sales,       \* table sales        (models/sale.py)
    sale_items,  \* table sale_items   (models/sale.py)
    tokens,      \* access tokens issued so far and still held by clients
    resp,        \* the last request and the response it got
    skus_created, \* history: the SKUs products have been created with
    calls,       \* the service calls in flight, one per concurrent request
    State        \* the frontend's state (frontend/frontend.py, class State)

vars == <<users, products, stock, sales, sale_items, tokens, resp, skus_created,
          calls, State>>
store == <<users, products, stock, sales, sale_items>>

----------------------------------------------------------------------------
(* Bounds of the model *)

MaxUsers == 2
MaxProducts == 2
MaxStock == 2
MaxSales == 1
MaxItems == 2
MaxCalls == 2
MaxStatements == 2

----------------------------------------------------------------------------
(* Values *)

None == "None"

Range(s) == {s[i] : i \in 1..Len(s)}

Restrict(f, F) == [k \in F |-> f[k]]

\* HTTP status codes (fastapi.status)
HTTP_200_OK == 200
HTTP_400_BAD_REQUEST == 400
HTTP_401_UNAUTHORIZED == 401
HTTP_403_FORBIDDEN == 403
HTTP_404_NOT_FOUND == 404
HTTP_500_INTERNAL_SERVER_ERROR == 500

\* shared/models/enums.py
UserRole == {"admin", "manager", "cashier", "viewer"}
StockStatus == {"available", "low_stock", "out_of_stock", "discontinued"}

\* The tokens a client can present: none, one that does not verify, or one
\* issued by create_token for user sub.
NoToken == [kind |-> "none", sub |-> 0]
InvalidToken == [kind |-> "invalid", sub |-> 0]
Jwt(sub) == [kind |-> "jwt", sub |-> sub]

----------------------------------------------------------------------------
(* Generic repository (repositories/base.py) *)

\* The generated primary key of the next row of a table (uuid4 in the
\* code): a number above those of the rows the table holds.
NewId(rows) ==
    IF rows = <<>> THEN 1
    ELSE 1 + CHOOSE m \in {rows[i].id : i \in 1..Len(rows)} :
                 \A i \in 1..Len(rows) : rows[i].id <= m

\* BaseRepository.get: <<row>> or <<>> (scalar_one_or_none).
BaseRepository_get(rows, id) ==
    LET hit == {i \in 1..Len(rows) : rows[i].id = id}
    IN  IF hit = {} THEN <<>> ELSE <<rows[CHOOSE i \in hit : TRUE]>>

\* BaseRepository.create, once the store has accepted the row.
BaseRepository_create(rows, entity) == Append(rows, entity)

\* UPDATE without its WHERE clause: every row takes the new values
BaseRepository_update_mut(rows, id, kwargs) ==
    [i \in 1..Len(rows) |->
        [k \in DOMAIN rows[i] |->
            IF k \in DOMAIN kwargs THEN kwargs[k] ELSE rows[i][k]]]

\* UPDATE ... WHERE id = :id VALUES kwargs: only the columns in kwargs change.
BaseRepository_update(rows, id, kwargs) ==
    [i \in 1..Len(rows) |->
        IF rows[i].id = id
        THEN [k \in DOMAIN rows[i] |->
                 IF k \in DOMAIN kwargs THEN kwargs[k] ELSE rows[i][k]]
        ELSE rows[i]]

\* DELETE without its WHERE clause: every row goes
BaseRepository_delete_mut(rows, id) == SelectSeq(rows, LAMBDA row : FALSE)

\* DELETE ... WHERE id = :id, once the store has accepted it
BaseRepository_delete(rows, id) == SelectSeq(rows, LAMBDA row : row.id # id)

----------------------------------------------------------------------------
(* Responses *)

Response(op, tok, req, status, detail, body) ==
    [op |-> op, tok |-> tok, req |-> req, status |-> status,
     detail |-> detail, body |-> body]

NoBody == <<>>

\* No request is being served: the last response has left the server.
NoRequest == Response("none", [kind |-> "none", sub |-> 0], <<>>, 0, "", NoBody)
Idle == resp = NoRequest

\* The requests served concurrently, each at a step of its service call
Requests == 1..MaxCalls
NoCall == [op |-> "none", req |-> <<>>, pc |-> "none", status |-> 0]

\* No request is being served concurrently
NoCalls == [p \in Requests |-> NoCall]

----------------------------------------------------------------------------
(* The current-user dependency (core/security.py, not in the source tree:  *)
(* modelled from the tests and the spec)                                   *)

\* get_current_user: HTTPBearer answers 403 when no credentials are sent,
\* a token that does not verify answers 401, a token issued by create_token
\* yields the user id it carries.
get_current_user(tok) ==
    IF tok.kind = "none" THEN [ok |-> FALSE, status |-> HTTP_403_FORBIDDEN,
                               detail |-> "Not authenticated", user_id |-> 0]
    ELSE IF tok.kind = "jwt" /\ tok \in tokens
    THEN [ok |-> TRUE, status |-> HTTP_200_OK, detail |-> "", user_id |-> tok.sub]
    ELSE [ok |-> FALSE, status |-> HTTP_401_UNAUTHORIZED,
          detail |-> "Could not validate credentials", user_id |-> 0]

\* get_password_hash / verify_password (core/security.py)
get_password_hash(password) == "hash:" \o password
verify_password(password, hashed) == hashed = get_password_hash(password)

----------------------------------------------------------------------------
(* Users (models/user.py, repositories/user.py, services/auth.py) *)

\* unique=True on users.email and users.google_id (NULLs never collide)
UserAccepted(rows, e) ==
    /\ e.email # None
    /\ \A i \in 1..Len(rows) : rows[i].email # e.email
    /\ e.google_id # None => \A i \in 1..Len(rows) : rows[i].google_id # e.google_id

get_by_email(email) ==
    LET hit == {i \in 1..Len(users) : users[i].email = email}
    IN  IF hit = {} THEN <<>> ELSE <<users[CHOOSE i \in hit : TRUE]>>

get_by_google_id(google_id) ==
    LET hit == {i \in 1..Len(users) : users[i].google_id = google_id}
    IN  IF hit = {} THEN <<>> ELSE <<users[CHOOSE i \in hit : TRUE]>>

\* UserRepository.create_user: the row the ORM builds (is_active defaults
\* to True).
create_user(email, hashed_password, google_id, role) ==
    [id |-> NewId(users), email |-> email, hashed_password |-> hashed_password,
     role |-> role, google_id |-> google_id, is_active |-> TRUE]

\* AuthService.authenticate_user without the is_active test
authenticate_user_mut(email, password) ==
    LET user == get_by_email(email)
    IN  IF user = <<>> \/ user[1].hashed_password = None THEN <<>>
        ELSE IF ~verify_password(password, user[1].hashed_password) THEN <<>>
        ELSE user

\* AuthService.authenticate_user: <<user>> or <<>> (None)
authenticate_user(email, password) ==
    LET user == get_by_email(email)
    IN  IF user = <<>> \/ user[1].hashed_password = None THEN <<>>
        ELSE IF ~verify_password(password, user[1].hashed_password) THEN <<>>
        ELSE IF ~user[1].is_active THEN <<>>
        ELSE user

\* AuthService.verify_google_token: the stub returns fixed data
verify_google_token(id_token) ==
    [email |-> "test@example.com", google_id |-> "google_123456",
     full_name |-> "Test User"]

\* register without the pre-check on the email: the insert meets the store's
\* unique constraint instead
register_mut(user_data) ==
    LET user == create_user(user_data.email, get_password_hash(user_data.password),
                            None, user_data.role)
    IN  /\ Idle
        /\ IF UserAccepted(users, user)
           THEN /\ Len(users) < MaxUsers
                /\ users' = BaseRepository_create(users, user)
                /\ resp' = Response("register", NoToken, user_data, HTTP_200_OK, "", user)
           ELSE /\ resp' = Response("register", NoToken, user_data,
                                    HTTP_500_INTERNAL_SERVER_ERROR,
                                    "Internal Server Error", NoBody)
                /\ UNCHANGED users
        /\ UNCHANGED <<products, stock, sales, sale_items, tokens, skus_created, calls, State>>

\* POST /auth/register
register(user_data) ==
    LET existing_user == get_by_email(user_data.email)
        user == create_user(user_data.email, get_password_hash(user_data.password),
                            None, user_data.role)
    IN  /\ Idle
        /\ IF existing_user # <<>>
           THEN /\ resp' = Response("register", NoToken, user_data, HTTP_400_BAD_REQUEST,
                                    "User with this email already exists", NoBody)
                /\ UNCHANGED users
           ELSE /\ Len(users) < MaxUsers
                /\ users' = BaseRepository_create(users, user)
                /\ resp' = Response("register", NoToken, user_data, HTTP_200_OK, "", user)
        /\ UNCHANGED <<products, stock, sales, sale_items, tokens, skus_created, calls, State>>

\* POST /auth/login
login(form_data) ==
    LET user == authenticate_user(form_data.username, form_data.password)
    IN  /\ Idle
        /\ IF user = <<>>
           THEN /\ resp' = Response("login", NoToken, form_data, HTTP_401_UNAUTHORIZED,
                                    "Incorrect email or password", NoBody)
                /\ UNCHANGED tokens
           ELSE /\ tokens' = tokens \cup {Jwt(user[1].id)}
                /\ resp' = Response("login", NoToken, form_data, HTTP_200_OK, "",
                                    Jwt(user[1].id))
        /\ UNCHANGED <<store, skus_created, calls, State>>

\* POST /auth/google
google_auth(auth_data) ==
    LET user_data == verify_google_token(auth_data.id_token)
        found == get_by_google_id(user_data.google_id)
        user == create_user(user_data.email, None, user_data.google_id, "cashier")
    IN  /\ Idle
        /\ IF found # <<>>
           THEN /\ tokens' = tokens \cup {Jwt(found[1].id)}
                /\ resp' = Response("google_auth", NoToken, auth_data, HTTP_200_OK, "",
                                    Jwt(found[1].id))
                /\ UNCHANGED users
           ELSE IF UserAccepted(users, user)
           THEN /\ Len(users) < MaxUsers
                /\ users' = BaseRepository_create(users, user)
                /\ tokens' = tokens \cup {Jwt(user.id)}
                /\ resp' = Response("google_auth", NoToken, auth_data, HTTP_200_OK, "",
                                    Jwt(user.id))
           ELSE \* IntegrityError caught by `except Exception`
                /\ resp' = Response("google_auth", NoToken, auth_data,
                                    HTTP_401_UNAUTHORIZED,
                                    "Google authentication failed", NoBody)
                /\ UNCHANGED <<users, tokens>>
        /\ UNCHANGED <<products, stock, sales, sale_items, skus_created, calls, State>>

\* UserRepository.update(id, is_active=...): the repository call by which an
\* account is disabled or enabled again (no route exposes it).
user_repo_update(id, kwargs) ==
    /\ Idle
    /\ BaseRepository_get(users, id) # <<>>
    /\ users' = BaseRepository_update(users, id, kwargs)
    /\ resp' = Response("user_repo_update", NoToken, [id |-> id, fields |-> kwargs],
                        HTTP_200_OK, "", NoBody)
    /\ UNCHANGED <<products, stock, sales, sale_items, tokens, skus_created, calls, State>>

----------------------------------------------------------------------------
(* Route protection (api/*.py): the handlers that declare                   *)
(* current_user: dict = Depends(get_current_user)                          *)

ProtectedRoutes ==
    {"create_product", "get_products", "get_product", "update_product",
     "delete_product",
     "create_stock", "update_stock_item", "create_stock_entry",
     "get_incomplete_entries", "complete_stock_entry",
     "create_sale", "get_sales", "get_sale", "update_sale", "get_total_sales",
     "get_current_user_info"}

\* update_sale without the dependency
Protected_mut(route) == route \in ProtectedRoutes \ {"update_sale"}

Protected(route) == route \in ProtectedRoutes

\* FastAPI resolves the dependencies before it calls the handler: a failed
\* get_current_user is the response, and the handler body never runs.
Rejected(route, tok) == Protected(route) /\ ~get_current_user(tok).ok

Reject(route, tok, req) ==
    /\ resp' = Response(route, tok, req, get_current_user(tok).status,
                        get_current_user(tok).detail, NoBody)
    /\ UNCHANGED <<store, tokens, skus_created, calls, State>>

----------------------------------------------------------------------------
(* Text: ILIKE '%query%' works on characters *)

Chars(str) ==
    CASE str = "Cat Bed" -> <<"C", "a", "t", " ", "B", "e", "d">>
      [] str = "cap" -> <<"c", "a", "p">>
      [] str = "CB1" -> <<"C", "B", "1">>
      [] str = "ca2" -> <<"c", "a", "2">>
      [] str = "CA" -> <<"C", "A">>
      [] str = "b" -> <<"b">>
      [] str = "zz" -> <<"z", "z">>
      [] OTHER -> <<>>

Lower(c) ==
    CASE c = "A" -> "a" [] c = "B" -> "b" [] c = "C" -> "c" [] OTHER -> c

\* column ILIKE '%query%' (the query holding no % or _ of its own)
ILike(column, query) ==
    LET hay == Chars(column)
        needle == Chars(query)
    IN  \E i \in 0..(Len(hay) - Len(needle)) :
            \A j \in 1..Len(needle) : Lower(hay[i + j]) = Lower(needle[j])

\* .offset(skip).limit(limit)
OffsetLimit(rows, skip, limit) ==
    SubSeq(rows, skip + 1, IF skip + limit < Len(rows) THEN skip + limit ELSE Len(rows))

----------------------------------------------------------------------------
(* Products (models/product.py, repositories/product.py,                   *)
(* services/product.py, api/products.py)                                   *)

\* products.sku is unique; name, sku, category, price are NOT NULL
\* The products table without the unique constraint on sku
ProductAccepted_mut(rows, e) ==
    e.name # None /\ e.sku # None /\ e.category # None /\ e.price # <<>>

ProductAccepted(rows, e) ==
    /\ e.name # None /\ e.sku # None /\ e.category # None /\ e.price # <<>>
    /\ \A i \in 1..Len(rows) : rows[i].id # e.id => rows[i].sku # e.sku

\* get_by_sku that overlooks soft-deleted products
get_by_sku_mut(sku) ==
    LET hit == {i \in 1..Len(products) : products[i].sku = sku /\ products[i].is_active}
    IN  IF hit = {} THEN <<>> ELSE <<products[CHOOSE i \in hit : TRUE]>>

get_by_sku(sku) ==
    LET hit == {i \in 1..Len(products) : products[i].sku = sku}
    IN  IF hit = {} THEN <<>> ELSE <<products[CHOOSE i \in hit : TRUE]>>

search_products(query, skip, limit) ==
    OffsetLimit(SelectSeq(products,
                    LAMBDA p : (ILike(p.name, query) \/ ILike(p.sku, query))
                               /\ p.is_active),
                skip, limit)

get_by_category(category, skip, limit) ==
    OffsetLimit(SelectSeq(products, LAMBDA p : p.category = category /\ p.is_active),
                skip, limit)

get_active_products(skip, limit) ==
    OffsetLimit(SelectSeq(products, LAMBDA p : p.is_active), skip, limit)

\* The row the ORM builds from ProductCreate (is_active defaults to True)
NewProduct(product_data) ==
    [id |-> NewId(products), name |-> product_data.name, sku |-> product_data.sku,
     category |-> product_data.category, price |-> product_data.price,
     is_active |-> TRUE]

\* A service call's outcome: the exception it raised ("" for none), the
\* table as it leaves it, and the value it returned.
Outcome(raised, rows, value) == [raised |-> raised, rows |-> rows, value |-> value]

\* ProductService.create_product
ProductService_create_product(product_data) ==
    IF get_by_sku(product_data.sku) # <<>>
    THEN Outcome("ValueError", products, <<>>)
    ELSE IF ~ProductAccepted(products, NewProduct(product_data))
    THEN Outcome("IntegrityError", products, <<>>)
    ELSE Outcome("", BaseRepository_create(products, NewProduct(product_data)),
                 <<NewProduct(product_data)>>)

\* The products table after UPDATE products SET kwargs WHERE id = :id, were
\* the store to accept it
ProductsUpdated(product_id, kwargs) == BaseRepository_update(products, product_id, kwargs)

\* ProductRepository.update -> BaseRepository.update: a row the store's
\* constraints reject raises IntegrityError and changes nothing
product_repo_update(product_id, kwargs) ==
    LET after == ProductsUpdated(product_id, kwargs)
        row == BaseRepository_get(after, product_id)
    IN  IF row = <<>> THEN Outcome("", products, <<>>)
        ELSE IF ~ProductAccepted(after, row[1])
        THEN Outcome("IntegrityError", products, <<>>)
        ELSE Outcome("", after, row)

\* ProductService.update_product
ProductService_update_product(product_id, product_data) ==
    product_repo_update(product_id, product_data)

\* delete_product as a hard delete
ProductService_delete_product_mut(product_id) ==
    Outcome("", SelectSeq(products, LAMBDA p : p.id # product_id),
            BaseRepository_get(products, product_id))

\* ProductService.delete_product: .value # <<>> is the `is not None`
ProductService_delete_product(product_id) ==
    product_repo_update(product_id, [is_active |-> FALSE])

ServerError(route, tok, req) ==
    Response(route, tok, req, HTTP_500_INTERNAL_SERVER_ERROR,
             "Internal Server Error", NoBody)

\* POST /products/
create_product(tok, product_data) ==
    LET r == ProductService_create_product(product_data)
    IN  /\ Idle
        /\ IF Rejected("create_product", tok) THEN Reject("create_product", tok, product_data)
           ELSE /\ r.raised = "" => Len(products) < MaxProducts
                /\ products' = r.rows
                /\ skus_created' = IF r.raised = "" THEN skus_created \cup {product_data.sku}
                                   ELSE skus_created
                /\ UNCHANGED <<calls, State>>
                /\ resp' = IF r.raised = "ValueError"
                           THEN Response("create_product", tok, product_data,
                                         HTTP_400_BAD_REQUEST,
                                         "Product with SKU " \o product_data.sku
                                             \o " already exists", NoBody)
                           ELSE IF r.raised # ""
                           THEN ServerError("create_product", tok, product_data)
                           ELSE Response("create_product", tok, product_data,
                                         HTTP_200_OK, "", r.value[1])
                /\ UNCHANGED <<users, stock, sales, sale_items, tokens>>

\* GET /products/
get_products(tok, query) ==
    LET found == IF query.search # None
                 THEN search_products(query.search, query.skip, query.limit)
                 ELSE IF query.category # None
                 THEN get_by_category(query.category, query.skip, query.limit)
                 ELSE get_active_products(query.skip, query.limit)
    IN  /\ Idle
        /\ IF Rejected("get_products", tok) THEN Reject("get_products", tok, query)
           ELSE /\ resp' = Response("get_products", tok, query, HTTP_200_OK, "", found)
                /\ UNCHANGED <<store, tokens, skus_created, calls, State>>

\* GET /products/{product_id}
get_product(tok, product_id) ==
    LET product == BaseRepository_get(products, product_id)
    IN  /\ Idle
        /\ IF Rejected("get_product", tok) THEN Reject("get_product", tok, product_id)
           ELSE /\ resp' = IF product = <<>>
                           THEN Response("get_product", tok, product_id,
                                         HTTP_404_NOT_FOUND, "Product not found", NoBody)
                           ELSE Response("get_product", tok, product_id, HTTP_200_OK, "",
                                         product[1])
                /\ UNCHANGED <<store, tokens, skus_created, calls, State>>

\* PUT /products/{product_id}
update_product(tok, product_id, product_data) ==
    LET r == ProductService_update_product(product_id, product_data)
        req == [product_id |-> product_id, product_data |-> product_data]
    IN  /\ Idle
        /\ IF Rejected("update_product", tok) THEN Reject("update_product", tok, req)
           ELSE /\ products' = r.rows
                /\ resp' = IF r.raised # "" THEN ServerError("update_product", tok, req)
                           ELSE IF r.value = <<>>
                           THEN Response("update_product", tok, req, HTTP_404_NOT_FOUND,
                                         "Product not found", NoBody)
                           ELSE Response("update_product", tok, req, HTTP_200_OK, "",
                                         r.value[1])
                /\ UNCHANGED <<users, stock, sales, sale_items, tokens, skus_created, calls, State>>

\* DELETE /products/{product_id}
delete_product(tok, product_id) ==
    LET r == ProductService_delete_product(product_id)
    IN  /\ Idle
        /\ IF Rejected("delete_product", tok) THEN Reject("delete_product", tok, product_id)
           ELSE /\ products' = r.rows
                /\ resp' = IF r.raised # "" THEN ServerError("delete_product", tok, product_id)
                           ELSE IF r.value = <<>>
                           THEN Response("delete_product", tok, product_id,
                                         HTTP_404_NOT_FOUND, "Product not found", NoBody)
                           ELSE Response("delete_product", tok, product_id, HTTP_200_OK,
                                         "Product deleted successfully", NoBody)
                /\ UNCHANGED <<users, stock, sales, sale_items, tokens, skus_created, calls, State>>

----------------------------------------------------------------------------
(* Product requests served concurrently: each await of the service is a    *)
(* step, each statement sent to the store is atomic                        *)

Step(p, op, req, pc, status) ==
    calls' = [calls EXCEPT ![p] = [op |-> op, req |-> req, pc |-> pc, status |-> status]]

\* create_product up to its first await: product_repo.get_by_sku; a product
\* found raises ValueError, which the route answers with 400
create_product_get_by_sku(p, product_data) ==
    /\ calls[p] = NoCall
    /\ IF get_by_sku(product_data.sku) # <<>>
       THEN Step(p, "create_product", product_data, "done", HTTP_400_BAD_REQUEST)
       ELSE Step(p, "create_product", product_data, "create", NoCall.status)
    /\ UNCHANGED <<store, tokens, resp, skus_created, State>>

\* create_product from product_repo.create on: the INSERT is refused by the
\* unique constraint if a row has taken the sku since the look-up
create_product_create(p) ==
    /\ calls[p].pc = "create"
    /\ IF ProductAccepted(products, NewProduct(calls[p].req))
       THEN /\ products' = BaseRepository_create(products, NewProduct(calls[p].req))
            /\ Step(p, "create_product", calls[p].req, "done", HTTP_200_OK)
       ELSE /\ products' = products
            /\ Step(p, "create_product", calls[p].req, "done",
                    HTTP_500_INTERNAL_SERVER_ERROR)
    /\ UNCHANGED <<users, stock, sales, sale_items, tokens, resp, skus_created, State>>

\* update_product: one UPDATE statement, no look-up before it
update_product_update(p, product_id, product_data) ==
    LET r == ProductService_update_product(product_id, product_data)
    IN  /\ calls[p] = NoCall
        /\ products' = r.rows
        /\ Step(p, "update_product", [product_id |-> product_id, product_data |-> product_data],
                "done",
                IF r.raised # "" THEN HTTP_500_INTERNAL_SERVER_ERROR
                ELSE IF r.value = <<>> THEN HTTP_404_NOT_FOUND ELSE HTTP_200_OK)
        /\ UNCHANGED <<users, stock, sales, sale_items, tokens, resp, skus_created, State>>

\* register up to its first await: user_repo.get_by_email; a user found is
\* answered with 400
register_get_by_email(p, user_data) ==
    /\ calls[p] = NoCall
    /\ IF get_by_email(user_data.email) # <<>>
       THEN Step(p, "register", user_data, "done", HTTP_400_BAD_REQUEST)
       ELSE Step(p, "register", user_data, "create_user", NoCall.status)
    /\ UNCHANGED <<store, tokens, resp, skus_created, State>>

\* register from auth_service.create_user on: the INSERT is refused by the
\* unique constraint if a row has taken the email since the look-up; the
\* IntegrityError is not caught
register_create_user(p) ==
    LET user == create_user(calls[p].req.email, get_password_hash(calls[p].req.password),
                            None, calls[p].req.role)
    IN  /\ calls[p].pc = "create_user"
        /\ IF UserAccepted(users, user)
           THEN /\ users' = BaseRepository_create(users, user)
                /\ Step(p, "register", calls[p].req, "done", HTTP_200_OK)
           ELSE /\ users' = users
                /\ Step(p, "register", calls[p].req, "done",
                        HTTP_500_INTERNAL_SERVER_ERROR)
        /\ UNCHANGED <<products, stock, sales, sale_items, tokens, resp, skus_created, State>>

\* The database session of a request (core/database.py): get_db opens it,
\* yields it to the handler and closes it when the handler is over
SessionRequest(opened, open, statements) ==
    [opened |-> opened, open |-> open, statements |-> statements]

\* get_db up to its yield: async with AsyncSessionLocal() as session
get_db(p) ==
    /\ calls[p] = NoCall
    /\ Step(p, "request", SessionRequest(1, TRUE, 0), "yield", NoCall.status)
    /\ UNCHANGED <<store, tokens, resp, skus_created, State>>

\* The handler sends a statement to the store through its session
session_execute(p) ==
    /\ calls[p].op = "request" /\ calls[p].pc = "yield"
    /\ calls[p].req.statements < MaxStatements
    /\ Step(p, "request", [calls[p].req EXCEPT !.statements = @ + 1], "yield",
            NoCall.status)
    /\ UNCHANGED <<store, tokens, resp, skus_created, State>>

\* The handler returns its result
handler_returns(p) ==
    /\ calls[p].op = "request" /\ calls[p].pc = "yield"
    /\ Step(p, "request", calls[p].req, "finally", HTTP_200_OK)
    /\ UNCHANGED <<store, tokens, resp, skus_created, State>>

\* The handler raises: the exception is thrown into get_db at its yield
handler_raises(p) ==
    /\ calls[p].op = "request" /\ calls[p].pc = "yield"
    /\ Step(p, "request", calls[p].req, "finally", HTTP_500_INTERNAL_SERVER_ERROR)
    /\ UNCHANGED <<store, tokens, resp, skus_created, State>>

\* get_db whose close is skipped when the handler has raised
get_db_finally_mut(p) ==
    /\ calls[p].op = "request" /\ calls[p].pc = "finally"
    /\ Step(p, "request",
            [calls[p].req EXCEPT !.open = calls[p].status # HTTP_200_OK],
            "done", calls[p].status)
    /\ UNCHANGED <<store, tokens, resp, skus_created, State>>

\* get_db after its yield: finally: await session.close(), then the exit
\* of the async with block
get_db_finally(p) ==
    /\ calls[p].op = "request" /\ calls[p].pc = "finally"
    /\ Step(p, "request", [calls[p].req EXCEPT !.open = FALSE], "done", calls[p].status)
    /\ UNCHANGED <<store, tokens, resp, skus_created, State>>

\* The response of a request leaves the server
return_response(p) ==
    /\ calls[p].pc = "done"
    /\ calls' = [calls EXCEPT ![p] = NoCall]
    /\ UNCHANGED <<store, tokens, resp, skus_created, State>>

----------------------------------------------------------------------------
(* Stock (models/stock.py, repositories/stock.py, services/stock.py,       *)
(* api/stock.py)                                                           *)

RECURSIVE SumQuantity(_)
\* sum(stock.quantity for stock in rows)
SumQuantity(rows) ==
    IF rows = <<>> THEN 0 ELSE Head(rows).quantity + SumQuantity(Tail(rows))

\* stock.product_id is a foreign key to products.id
StockAccepted(e) == BaseRepository_get(products, e.product_id) # <<>>

\* StockRepository.get_by_product
get_by_product(product_id) == SelectSeq(stock, LAMBDA st : st.product_id = product_id)

\* StockRepository.get_available_stock: func.sum(...) where status is
\* available, `or 0`. No service calls it.
StockRepository_get_available_stock(product_id) ==
    SumQuantity(SelectSeq(stock, LAMBDA st : st.product_id = product_id
                                              /\ st.status = "available"))

\* StockService.get_available_stock
StockService_get_available_stock(product_id) == SumQuantity(get_by_product(product_id))

\* ProductRepository.get_active_products(): skip = 0, limit = 20
DefaultLimit == 20

RECURSIVE LowStockOf(_, _)
\* the loop of StockService.get_low_stock_products over the products read
LowStockOf(rows, threshold) ==
    IF rows = <<>> THEN <<>>
    ELSE LET product == Head(rows)
             available_stock == StockService_get_available_stock(product.id)
         IN  (IF available_stock <= threshold
              THEN <<[product_id |-> product.id, sku |-> product.sku,
                      available_stock |-> available_stock, threshold |-> threshold]>>
              ELSE <<>>) \o LowStockOf(Tail(rows), threshold)

\* StockService.get_low_stock_products
StockService_get_low_stock_products(threshold) ==
    LowStockOf(get_active_products(0, DefaultLimit), threshold)

NewStock(stock_data) ==
    [id |-> NewId(stock), product_id |-> stock_data.product_id,
     quantity |-> stock_data.quantity, status |-> stock_data.status,
     location |-> stock_data.location]

\* StockService.create_stock without its look-up of the product
StockService_create_stock_mut(stock_data) ==
    IF ~StockAccepted(NewStock(stock_data))
    THEN Outcome("IntegrityError", stock, <<>>)
    ELSE Outcome("", BaseRepository_create(stock, NewStock(stock_data)),
                 <<NewStock(stock_data)>>)

\* StockService.create_stock
StockService_create_stock(stock_data) ==
    IF BaseRepository_get(products, stock_data.product_id) = <<>>
    THEN Outcome("ValueError: Product not found", stock, <<>>)
    ELSE IF ~StockAccepted(NewStock(stock_data))
    THEN Outcome("IntegrityError", stock, <<>>)
    ELSE Outcome("", BaseRepository_create(stock, NewStock(stock_data)),
                 <<NewStock(stock_data)>>)

\* StockService.create_stock_entry: user_id is not used; the dict it returns
\* has no "status"
StockService_create_stock_entry(stock_data, user_id) ==
    IF BaseRepository_get(products, stock_data.product_id) = <<>>
    THEN Outcome("ValueError: Product not found", stock, <<>>)
    ELSE IF ~StockAccepted(NewStock(stock_data))
    THEN Outcome("IntegrityError", stock, <<>>)
    ELSE Outcome("", BaseRepository_create(stock, NewStock(stock_data)),
                 <<[id |-> NewStock(stock_data).id,
                    product_id |-> NewStock(stock_data).product_id,
                    quantity |-> NewStock(stock_data).quantity,
                    location |-> NewStock(stock_data).location]>>)

\* A service method called directly: what it raised and what it returned
Returned(method, args, r) ==
    Response(method, NoRequest.tok, args, NoRequest.status, r.raised, r.value)

\* await stock_service.create_stock(stock_data)
call_create_stock(stock_data) ==
    LET r == StockService_create_stock(stock_data)
    IN  /\ Idle
        /\ r.raised = "" => Len(stock) < MaxStock
        /\ stock' = r.rows
        /\ resp' = Returned("StockService.create_stock", stock_data, r)
        /\ UNCHANGED <<users, products, sales, sale_items, tokens, skus_created, calls, State>>

\* await stock_service.create_stock_entry(stock_data, user_id)
call_create_stock_entry(stock_data, user_id) ==
    LET r == StockService_create_stock_entry(stock_data, user_id)
    IN  /\ Idle
        /\ r.raised = "" => Len(stock) < MaxStock
        /\ stock' = r.rows
        /\ resp' = Returned("StockService.create_stock_entry", stock_data, r)
        /\ UNCHANGED <<users, products, sales, sale_items, tokens, skus_created, calls, State>>

\* StockService.update_stock_quantity: the dict it returns has no "status"
StockService_update_stock_quantity(stock_id, quantity) ==
    IF BaseRepository_get(stock, stock_id) = <<>> THEN Outcome("", stock, <<>>)
    ELSE Outcome("", BaseRepository_update(stock, stock_id, [quantity |-> quantity]),
                 BaseRepository_get(
                     BaseRepository_update(stock, stock_id, [quantity |-> quantity]),
                     stock_id))

----------------------------------------------------------------------------
(* The repositories of products and of stock called directly               *)
(* (repositories/base.py): no route or service calls delete                *)

Tables == {"products", "stock"}
Rows(table) == IF table = "products" THEN products ELSE stock

\* A row of another table holds the id in a foreign key (models/stock.py,
\* models/sale.py; no ondelete, no cascade)
Referenced(table, id) ==
    /\ table = "products"
    /\ \/ \E i \in 1..Len(stock) : stock[i].product_id = id
       \/ \E i \in 1..Len(sale_items) : sale_items[i].product_id = id

\* BaseRepository.get
repo_get(table, id) == Outcome("", Rows(table), BaseRepository_get(Rows(table), id))

\* BaseRepository.update: the row returned by RETURNING, or None
repo_update(table, id, kwargs) ==
    IF table = "products" THEN product_repo_update(id, kwargs)
    ELSE Outcome("", BaseRepository_update(stock, id, kwargs),
                 BaseRepository_get(BaseRepository_update(stock, id, kwargs), id))

\* BaseRepository.delete: rowcount > 0; the store refuses to delete a row
\* that a foreign key of another row points to
repo_delete(table, id) ==
    IF BaseRepository_get(Rows(table), id) = <<>>
    THEN Outcome("", Rows(table), <<FALSE>>)
    ELSE IF Referenced(table, id)
    THEN Outcome("IntegrityError", Rows(table), <<>>)
    ELSE Outcome("", BaseRepository_delete(Rows(table), id), <<TRUE>>)

\* The call of a repository method leaves the table as its outcome says
Called(method, table, id, r) ==
    /\ Idle
    /\ products' = IF table = "products" THEN r.rows ELSE products
    /\ stock' = IF table = "stock" THEN r.rows ELSE stock
    /\ resp' = Returned(method, [table |-> table, id |-> id], r)
    /\ UNCHANGED <<users, sales, sale_items, tokens, skus_created, calls, State>>

call_get(table, id) == Called("BaseRepository.get", table, id, repo_get(table, id))
call_update(table, id, kwargs) ==
    Called("BaseRepository.update", table, id, repo_update(table, id, kwargs))
call_delete(table, id) ==
    Called("BaseRepository.delete", table, id, repo_delete(table, id))

----------------------------------------------------------------------------
(* Stock routes (api/stock.py) *)

\* POST /stock/ : the ValueError of the service is not caught
create_stock(tok, stock_data) ==
    LET r == StockService_create_stock(stock_data)
    IN  /\ Idle
        /\ IF Rejected("create_stock", tok) THEN Reject("create_stock", tok, stock_data)
           ELSE /\ r.raised = "" => Len(stock) < MaxStock
                /\ stock' = r.rows
                /\ resp' = IF r.raised # "" THEN ServerError("create_stock", tok, stock_data)
                           ELSE Response("create_stock", tok, stock_data, HTTP_200_OK, "",
                                         r.value[1])
                /\ UNCHANGED <<users, products, sales, sale_items, tokens, skus_created, calls, State>>

\* BaseRepository.get_all
BaseRepository_get_all(rows, skip, limit) == OffsetLimit(rows, skip, limit)

\* The dict the stock service builds of a Stock row
stock_result(row) ==
    [id |-> row.id, product_id |-> row.product_id,
     product_name |-> IF BaseRepository_get(products, row.product_id) = <<>>
                      THEN "Unknown"
                      ELSE BaseRepository_get(products, row.product_id)[1].name,
     quantity |-> row.quantity, location |-> row.location, status |-> row.status]

\* StockService.get_stock_by_product: takes neither skip nor limit
StockService_get_stock_by_product(product_id) ==
    [i \in 1..Len(get_by_product(product_id)) |->
        stock_result(get_by_product(product_id)[i])]

\* StockService.get_stock_list
StockService_get_stock_list(skip, limit) ==
    [i \in 1..Len(BaseRepository_get_all(stock, skip, limit)) |->
        stock_result(BaseRepository_get_all(stock, skip, limit)[i])]

\* GET /stock/ : no current-user dependency; product_id is <<id>> or <<>>
get_stock_items(query) ==
    /\ Idle
    /\ resp' = Response("get_stock_items", NoToken, query, HTTP_200_OK, "",
                        IF query.product_id # <<>>
                        THEN StockService_get_stock_by_product(query.product_id[1])
                        ELSE StockService_get_stock_list(query.skip, query.limit))
    /\ UNCHANGED <<store, tokens, skus_created, calls, State>>

\* PUT /stock/{stock_id} : stock_data.quantity or 0; the service's dict
\* fails the StockResponse validation (no status) after the commit
update_stock_item(tok, stock_id, stock_data) ==
    LET quantity == IF "quantity" \in DOMAIN stock_data THEN stock_data.quantity ELSE 0
        r == StockService_update_stock_quantity(stock_id, quantity)
        req == [stock_id |-> stock_id, stock_data |-> stock_data]
    IN  /\ Idle
        /\ IF Rejected("update_stock_item", tok) THEN Reject("update_stock_item", tok, req)
           ELSE /\ stock' = r.rows
                /\ resp' = IF r.value = <<>>
                           THEN Response("update_stock_item", tok, req, HTTP_404_NOT_FOUND,
                                         "Stock item not found", NoBody)
                           ELSE ServerError("update_stock_item", tok, req)
                /\ UNCHANGED <<users, products, sales, sale_items, tokens, skus_created, calls, State>>

\* GET /stock/product/{product_id}/available
get_available_stock(tok, product_id) ==
    /\ Idle
    /\ IF Rejected("get_available_stock", tok)
       THEN Reject("get_available_stock", tok, product_id)
       ELSE /\ resp' = Response("get_available_stock", tok, product_id, HTTP_200_OK, "",
                                [product_id |-> product_id,
                                 available_quantity |->
                                     StockService_get_available_stock(product_id)])
            /\ UNCHANGED <<store, tokens, skus_created, calls, State>>

\* GET /stock/low-stock
get_low_stock_products(tok, threshold) ==
    /\ Idle
    /\ IF Rejected("get_low_stock_products", tok)
       THEN Reject("get_low_stock_products", tok, threshold)
       ELSE /\ resp' = Response("get_low_stock_products", tok, threshold, HTTP_200_OK, "",
                                StockService_get_low_stock_products(threshold))
            /\ UNCHANGED <<store, tokens, skus_created, calls, State>>

\* The stock_entries table (models/stock.py): no route, service or
\* repository call in the code inserts a StockEntry row
stock_entries == <<>>

\* POST /stock/entries, GET /stock/entries/incomplete,
\* POST /stock/entries/{entry_id}/complete: past the dependency each of them
\* raises AttributeError (StockEntryCreate has no product_id; StockService
\* has no get_incomplete_entries and no complete_stock_entry)
stock_entry_route(route, tok, req) ==
    /\ Idle
    /\ route \in {"create_stock_entry", "get_incomplete_entries", "complete_stock_entry"}
    /\ IF Rejected(route, tok) THEN Reject(route, tok, req)
       ELSE /\ resp' = ServerError(route, tok, req)
            /\ UNCHANGED <<store, tokens, skus_created, calls, State>>

----------------------------------------------------------------------------
(* Sales (models/sale.py, repositories/sale.py, services/sale.py,          *)
(* api/sales.py)                                                           *)

\* Decimal(str): <<cents>>, or <<>> where decimal.InvalidOperation is raised
Decimal(str) ==
    CASE str = "15.99" -> <<1599>>
      [] str = "47.97" -> <<4797>>
      [] str = "31.98" -> <<3198>>
      [] str = "0" -> <<0>>
      [] str = "47.9" -> <<4790>>
      [] str = "47.90" -> <<4790>>
      [] str = "5.00" -> <<500>>
      [] OTHER -> <<>>

\* str(sale.total_amount): the text of a Numeric(10, 2) value read back from
\* the store, always with two decimal places
Str(cents) ==
    ToString(cents \div 100) \o "." \o ToString((cents % 100) \div 10)
                             \o ToString(cents % 10)

\* The sale_items table without its foreign key to products
SaleItemAccepted_mut(rows, e) == BaseRepository_get(rows, e.sale_id) # <<>>

\* sale_items.sale_id and sale_items.product_id are foreign keys
SaleItemAccepted(rows, e) ==
    /\ BaseRepository_get(rows, e.sale_id) # <<>>
    /\ BaseRepository_get(products, e.product_id) # <<>>

\* sales.created_by is a foreign key to users.id
SaleAccepted(e) == BaseRepository_get(users, e.created_by) # <<>>

\* item_dict with the sale's total in place of the unit price
item_dict_mut(sale_id, item, id) ==
    [id |-> id, sale_id |-> sale_id, product_id |-> item.product_id,
     quantity |-> item.quantity, unit_price |-> Decimal(item.unit_price)[1] * item.quantity,
     discount_amount |-> 0,
     total_amount |-> Decimal(item.unit_price)[1] * item.quantity]

\* item_dict taking the discount and the total the line item carries
item_dict_own(sale_id, item, id) ==
    [id |-> id, sale_id |-> sale_id, product_id |-> item.product_id,
     quantity |-> item.quantity, unit_price |-> Decimal(item.unit_price)[1],
     discount_amount |-> IF "discount_amount" \in DOMAIN item
                         THEN Decimal(item.discount_amount)[1] ELSE 0,
     total_amount |-> IF "total_amount" \in DOMAIN item
                      THEN Decimal(item.total_amount)[1]
                      ELSE Decimal(item.unit_price)[1] * item.quantity]

\* item_dict of create_sale, as the row the ORM builds (discount_amount
\* defaults to 0)
item_dict(sale_id, item, id) ==
    [id |-> id, sale_id |-> sale_id, product_id |-> item.product_id,
     quantity |-> item.quantity, unit_price |-> Decimal(item.unit_price)[1],
     discount_amount |-> 0,
     total_amount |-> Decimal(item.unit_price)[1] * item.quantity]

RECURSIVE create_items(_, _, _, _)
\* for item in items: ... await self.sale_item_repo.create(**item_dict)
\* Each create commits; the first item that raises ends the loop.
create_items(sales_now, sale_id, items, rows) ==
    IF items = <<>> THEN [raised |-> "", rows |-> rows]
    ELSE IF Decimal(Head(items).unit_price) = <<>>
    THEN [raised |-> "InvalidOperation", rows |-> rows]
    ELSE IF ~SaleItemAccepted(sales_now, item_dict(sale_id, Head(items), NewId(rows)))
    THEN [raised |-> "IntegrityError", rows |-> rows]
    ELSE create_items(sales_now, sale_id, Tail(items),
                      BaseRepository_create(rows, item_dict(sale_id, Head(items),
                                                            NewId(rows))))

RECURSIVE LatestCreatedAt(_)
LatestCreatedAt(rows) ==
    IF rows = <<>> THEN 0
    ELSE IF Head(rows).created_at > LatestCreatedAt(Tail(rows))
         THEN Head(rows).created_at ELSE LatestCreatedAt(Tail(rows))

\* datetime.utcnow, the default of Sale.created_at: the readings the clock
\* can give at an insert, the creation time of the latest sale or a later one
utcnow == IF sales = <<>> THEN {1}
          ELSE {LatestCreatedAt(sales), LatestCreatedAt(sales) + 1}

\* sale_dict computing the final amount from the discount and the tax
sale_dict_mut(sale_data, user_id, now) ==
    [id |-> NewId(sales),
     reference |-> IF sale_data.reference = None THEN "SALE-now" ELSE sale_data.reference,
     total_amount |-> Decimal(sale_data.total_amount)[1],
     discount_amount |-> sale_data.discount_amount,
     tax_amount |-> sale_data.tax_amount,
     final_amount |-> Decimal(sale_data.total_amount)[1]
                          - sale_data.discount_amount + sale_data.tax_amount,
     status |-> sale_data.status,
     payment_method |-> sale_data.payment_method,
     created_by |-> user_id,
     created_at |-> now]

\* sale_dict of create_sale, as the row the ORM builds
sale_dict(sale_data, user_id, now) ==
    [id |-> NewId(sales),
     reference |-> IF sale_data.reference = None THEN "SALE-now" ELSE sale_data.reference,
     total_amount |-> Decimal(sale_data.total_amount)[1],
     discount_amount |-> sale_data.discount_amount,
     tax_amount |-> sale_data.tax_amount,
     final_amount |-> IF sale_data.final_amount = <<>>
                      THEN Decimal(sale_data.total_amount)[1]
                      ELSE sale_data.final_amount[1],
     status |-> sale_data.status,
     payment_method |-> sale_data.payment_method,
     created_by |-> user_id,
     created_at |-> now]

SaleOutcome(raised, sale_rows, item_rows, value) ==
    [raised |-> raised, sales |-> sale_rows, sale_items |-> item_rows, value |-> value]

\* SaleService.create_sale returning the line items re-read from storage
SaleService_create_sale_mut(sale_data, user_id, now) ==
    IF Decimal(sale_data.total_amount) = <<>>
    THEN SaleOutcome("InvalidOperation", sales, sale_items, <<>>)
    ELSE IF ~SaleAccepted(sale_dict(sale_data, user_id, now))
    THEN SaleOutcome("IntegrityError", sales, sale_items, <<>>)
    ELSE LET sale == sale_dict(sale_data, user_id, now)
             sales_now == BaseRepository_create(sales, sale)
             done == create_items(sales_now, sale.id, sale_data.items, sale_items)
         IN  SaleOutcome(done.raised, sales_now, done.rows,
                         <<[id |-> sale.id, reference |-> sale.reference,
                            total_amount |-> Str(sale.total_amount),
                            discount_amount |-> Str(sale.discount_amount),
                            tax_amount |-> Str(sale.tax_amount),
                            final_amount |-> Str(sale.final_amount),
                            status |-> sale.status,
                            payment_method |-> sale.payment_method,
                            created_by |-> sale.created_by,
                            created_at |-> sale.created_at,
                            items |-> SubSeq(done.rows, Len(sale_items) + 1,
                                             Len(done.rows))]>>)

\* SaleService.create_sale
SaleService_create_sale(sale_data, user_id, now) ==
    IF Decimal(sale_data.total_amount) = <<>>
    THEN SaleOutcome("InvalidOperation", sales, sale_items, <<>>)
    ELSE IF ~SaleAccepted(sale_dict(sale_data, user_id, now))
    THEN SaleOutcome("IntegrityError", sales, sale_items, <<>>)
    ELSE LET sale == sale_dict(sale_data, user_id, now)
             sales_now == BaseRepository_create(sales, sale)
             done == create_items(sales_now, sale.id, sale_data.items, sale_items)
         IN  SaleOutcome(done.raised, sales_now, done.rows,
                         <<[id |-> sale.id, reference |-> sale.reference,
                            total_amount |-> Str(sale.total_amount),
                            discount_amount |-> Str(sale.discount_amount),
                            tax_amount |-> Str(sale.tax_amount),
                            final_amount |-> Str(sale.final_amount),
                            status |-> sale.status,
                            payment_method |-> sale.payment_method,
                            created_by |-> sale.created_by,
                            created_at |-> sale.created_at,
                            items |-> sale_data.items]>>)

\* POST /sales/ taking the stock of the products sold
create_sale_mut(tok, sale_data) ==
    /\ Idle
    /\ \E now \in utcnow :
        LET r == SaleService_create_sale(sale_data, get_current_user(tok).user_id, now)
        IN
           IF Rejected("create_sale", tok) THEN Reject("create_sale", tok, sale_data)
           ELSE /\ sales' = r.sales
                /\ sale_items' = r.sale_items
                /\ stock' = [i \in 1..Len(stock) |->
                                IF \E n \in 1..Len(sale_data.items) :
                                       sale_data.items[n].product_id = stock[i].product_id
                                THEN [stock[i] EXCEPT !.quantity = 0] ELSE stock[i]]
                /\ resp' = IF r.raised # "" THEN ServerError("create_sale", tok, sale_data)
                           ELSE Response("create_sale", tok, sale_data, HTTP_200_OK, "",
                                         r.value[1])
                /\ UNCHANGED <<users, products, tokens, skus_created, calls, State>>

\* POST /sales/
create_sale(tok, sale_data) ==
    /\ Idle
    /\ \E now \in utcnow :
        LET r == SaleService_create_sale(sale_data, get_current_user(tok).user_id, now)
        IN
           IF Rejected("create_sale", tok) THEN Reject("create_sale", tok, sale_data)
           ELSE /\ sales' = r.sales
                /\ sale_items' = r.sale_items
                /\ resp' = IF r.raised # "" THEN ServerError("create_sale", tok, sale_data)
                           ELSE Response("create_sale", tok, sale_data, HTTP_200_OK, "",
                                         r.value[1])
                /\ UNCHANGED <<users, products, stock, tokens, skus_created, calls, State>>

\* ORDER BY created_at DESC: the orders in which the store may return the
\* rows; rows of the same created_at come in any order
OrderedByCreatedAtDesc(rows) ==
    {o \in [1..Len(rows) -> Range(rows)] :
        /\ Range(o) = Range(rows)
        /\ \A i, j \in 1..Len(rows) : i < j => o[i].created_at >= o[j].created_at}

\* SaleRepository.get_by_user without its where clause
get_by_user_mut(user_id, skip, limit) ==
    {OffsetLimit(o, skip, limit) : o \in OrderedByCreatedAtDesc(sales)}

\* SaleRepository.get_by_user: the results the query may give
get_by_user(user_id, skip, limit) ==
    {OffsetLimit(o, skip, limit) :
        o \in OrderedByCreatedAtDesc(
                  SelectSeq(sales, LAMBDA sale : sale.created_by = user_id))}

RECURSIVE SumFinalAmount(_)
\* SaleRepository.get_total_sales_amount without a date range
SumFinalAmount(rows) ==
    IF rows = <<>> THEN 0 ELSE Head(rows).final_amount + SumFinalAmount(Tail(rows))

\* The dict SaleService.get_sales_by_user builds of a Sale row
sale_result(sale) ==
    [id |-> sale.id, reference |-> sale.reference,
     total_amount |-> Str(sale.total_amount),
     discount_amount |-> Str(sale.discount_amount),
     tax_amount |-> Str(sale.tax_amount),
     final_amount |-> Str(sale.final_amount),
     status |-> sale.status, payment_method |-> sale.payment_method,
     created_by |-> sale.created_by, created_at |-> sale.created_at]

\* SaleService.get_sales_by_user: the results it may give
get_sales_by_user(user_id, skip, limit) ==
    {[i \in 1..Len(rows) |-> sale_result(rows[i])] :
        rows \in get_by_user(user_id, skip, limit)}

\* GET /sales/
get_sales(tok, query) ==
    /\ Idle
    /\ IF Rejected("get_sales", tok) THEN Reject("get_sales", tok, query)
       ELSE /\ \E result \in get_sales_by_user(get_current_user(tok).user_id,
                                                query.skip, query.limit) :
                  resp' = Response("get_sales", tok, query, HTTP_200_OK, "", result)
            /\ UNCHANGED <<store, tokens, skus_created, calls, State>>

\* GET /sales/{sale_id} : the dict of SaleService.get_sale lacks fields that
\* SaleResponse requires, so a sale that exists fails the response validation
get_sale(tok, sale_id) ==
    /\ Idle
    /\ IF Rejected("get_sale", tok) THEN Reject("get_sale", tok, sale_id)
       ELSE /\ resp' = IF BaseRepository_get(sales, sale_id) = <<>>
                       THEN Response("get_sale", tok, sale_id, HTTP_404_NOT_FOUND,
                                     "Sale not found", NoBody)
                       ELSE ServerError("get_sale", tok, sale_id)
            /\ UNCHANGED <<store, tokens, skus_created, calls, State>>

\* PUT /sales/{sale_id} : the update commits, then the dict of
\* SaleService.update_sale fails the response validation as in get_sale
update_sale(tok, sale_id, sale_data) ==
    LET req == [sale_id |-> sale_id, sale_data |-> sale_data]
    IN  /\ Idle
        /\ IF Rejected("update_sale", tok) THEN Reject("update_sale", tok, req)
           ELSE /\ sales' = BaseRepository_update(sales, sale_id, sale_data)
                /\ resp' = IF BaseRepository_get(sales, sale_id) = <<>>
                           THEN Response("update_sale", tok, req, HTTP_404_NOT_FOUND,
                                         "Sale not found", NoBody)
                           ELSE ServerError("update_sale", tok, req)
                /\ UNCHANGED <<users, products, stock, sale_items, tokens, skus_created, calls, State>>

\* GET /sales/stats/total
get_total_sales(tok) ==
    /\ Idle
    /\ IF Rejected("get_total_sales", tok) THEN Reject("get_total_sales", tok, <<>>)
       ELSE /\ resp' = Response("get_total_sales", tok, <<>>, HTTP_200_OK, "",
                                [total_amount |-> SumFinalAmount(sales)])
            /\ UNCHANGED <<store, tokens, skus_created, calls, State>>

\* GET /auth/me
get_current_user_info(tok) ==
    /\ Idle
    /\ IF Rejected("get_current_user_info", tok)
       THEN Reject("get_current_user_info", tok, <<>>)
       ELSE /\ resp' = IF BaseRepository_get(users, get_current_user(tok).user_id) = <<>>
                       THEN Response("get_current_user_info", tok, <<>>,
                                     HTTP_404_NOT_FOUND, "User not found", NoBody)
                       ELSE Response("get_current_user_info", tok, <<>>, HTTP_200_OK, "",
                                     BaseRepository_get(users,
                                         get_current_user(tok).user_id)[1])
            /\ UNCHANGED <<store, tokens, skus_created, calls, State>>

\* The request would store a Sale row and the table has room for it: the
\* bound of the model on the sales table
WithinSales(cap, tok, sale_data) ==
    (~Rejected("create_sale", tok) /\ Decimal(sale_data.total_amount) # <<>>)
        => Len(sales) < cap

\* The response leaves the server; the next request can be served.
send_response ==
    /\ ~Idle
    /\ resp' = NoRequest
    /\ UNCHANGED <<store, tokens, skus_created, calls, State>>

----------------------------------------------------------------------------
(* The frontend (frontend/frontend.py): class State and its event handlers *)

\* The demo rows load_products and load_stock put in the state (prices in cents)
DemoProducts ==
    << [id |-> "1", name |-> "Dog Collar", sku |-> "DC001",
        category |-> "accessories", price |-> 1599],
       [id |-> "2", name |-> "Cat Food Premium", sku |-> "CF001",
        category |-> "food", price |-> 2550],
       [id |-> "3", name |-> "Bird Cage", sku |-> "BC001",
        category |-> "accessories", price |-> 8999] >>

DemoStockItems ==
    << [id |-> "1", product_name |-> "Dog Collar", quantity |-> 50,
        location |-> "Warehouse A"],
       [id |-> "2", product_name |-> "Cat Food Premium", quantity |-> 25,
        location |-> "Warehouse B"],
       [id |-> "3", product_name |-> "Bird Cage", quantity |-> 10,
        location |-> "Warehouse A"] >>

\* The class attributes' defaults; current_user is <<>> for None
InitialState ==
    [is_authenticated |-> FALSE,
     current_user |-> <<>>,
     products |-> <<>>,
     product_loading |-> FALSE,
     stock_items |-> <<>>,
     stock_loading |-> FALSE,
     current_page |-> "login",
     login_error |-> "",
     login_email |-> "",
     login_password |-> ""]

backend == <<store, tokens, resp, skus_created, calls>>

handle_email_change(value) ==
    /\ State' = [State EXCEPT !.login_email = value]
    /\ UNCHANGED backend

handle_password_change(value) ==
    /\ State' = [State EXCEPT !.login_password = value]
    /\ UNCHANGED backend

handle_login ==
    /\ IF State.login_email = "" \/ State.login_password = ""
       THEN State' = [State EXCEPT
                         !.login_error = "Please enter both email and password"]
       ELSE State' = [State EXCEPT
                         !.login_error = "",
                         !.is_authenticated = TRUE,
                         !.current_page = "dashboard",
                         !.current_user = << [full_name |-> "Demo User",
                                              email |-> State.login_email,
                                              role |-> "cashier"] >>]
    /\ UNCHANGED backend

logout ==
    /\ State' = [State EXCEPT
                    !.is_authenticated = FALSE,
                    !.current_user = <<>>,
                    !.current_page = "login",
                    !.login_email = "",
                    !.login_password = "",
                    !.login_error = ""]
    /\ UNCHANGED backend

load_products(self) ==
    [self EXCEPT !.products = DemoProducts, !.product_loading = FALSE]

load_stock(self) ==
    [self EXCEPT !.stock_items = DemoStockItems, !.stock_loading = FALSE]

navigate_to(page) ==
    /\ State' = LET self == [State EXCEPT !.current_page = page]
                IN  IF page = "products" THEN load_products(self)
                    ELSE IF page = "stock" THEN load_stock(self)
                    ELSE self
    /\ UNCHANGED backend

\* The component main_content renders for the current page
main_content ==
    IF State.current_page \in {"login", "dashboard", "products", "stock", "sales"}
    THEN State.current_page
    ELSE "dashboard"

-----------------------------------------------------------------------------

(* Inputs *)

Emails == {"a@x.com", "test@example.com"}
Passwords == {"pw1", "pw2"}
Roles == {"cashier", "admin"}

UserCreate == [email : Emails, password : Passwords, role : Roles]
LoginForm == [username : Emails, password : Passwords]
GoogleAuthRequest == [id_token : {"id-token"}]

\* Products
Names == {"Cat Bed", "cap"}
Skus == {"CB1", "ca2"}
Categories == {"cat_accessories", "toys"}
ProductIds == 1..(MaxProducts + 1)

ProductCreate ==
    [name : Names, sku : Skus, category : Categories, price : {<<1999>>}]

\* The update payloads: every subset of the fields (exclude_unset) of two
\* full payloads, the second one holding an explicit null for name.
ProductUpdateFields == {"name", "sku", "price", "is_active"}
ProductUpdate ==
    {Restrict(full, F) :
        full \in {[name |-> "cap", sku |-> "ca2", price |-> <<2999>>,
                   is_active |-> FALSE],
                  [name |-> None, sku |-> "CB1", price |-> <<1999>>,
                   is_active |-> TRUE]},
        F \in SUBSET ProductUpdateFields}
Queries == {"ca", "b", "zz"}
ProductQuery ==
    {[skip |-> 0, limit |-> 20, category |-> None, search |-> None],
     [skip |-> 1, limit |-> 1, category |-> None, search |-> None],
     [skip |-> 0, limit |-> 20, category |-> "toys", search |-> None],
     [skip |-> 0, limit |-> 20, category |-> None, search |-> "ca"]}

\* Stock
Quantities == {3, 7}
Thresholds == {5, 10}
StockCreate ==
    [product_id : ProductIds, quantity : Quantities, status : StockStatus,
     location : {"store"}]
StockUpdate == {[quantity |-> 7], [location |-> "shelf"]}

\* Sales: the line items of a request are dicts the schema does not check
SaleItemInput ==
    [product_id : 1..MaxProducts, quantity : {1, 3}, unit_price : {"15.99", "abc"}]
ItemLists ==
    UNION {[1..n -> SaleItemInput] : n \in 0..MaxItems}
SaleCreate ==
    [items : ItemLists, payment_method : {"cash"}, total_amount : {"47.97", "abc"},
     reference : {None}, discount_amount : {0}, tax_amount : {0},
     final_amount : {<<>>, <<3198>>}, status : {"pending"}]
SaleUpdate == {[status |-> "completed"]}
SaleQuery == {[skip |-> 0, limit |-> 20]}

\* What a client can send as credentials: nothing, garbage, the token of
\* the session, a well-formed token that create_token never issued
Credentials == {NoToken, InvalidToken, Jwt(1), Jwt(2)}


----------------------------------------------------------------------------
(* Specifications *)

Init ==
    /\ users = <<>>
    /\ products = <<>>
    /\ stock = <<>>
    /\ sales = <<>>
    /\ sale_items = <<>>
    /\ tokens = {}
    /\ resp = NoRequest
    /\ skus_created = {}
    /\ calls = NoCalls
    /\ State = InitialState

NextAuth ==
    \/ \E user_data \in UserCreate : register(user_data)
    \/ \E form_data \in LoginForm : login(form_data)
    \/ \E auth_data \in GoogleAuthRequest : google_auth(auth_data)
    \/ \E id \in 1..MaxUsers, a \in BOOLEAN : user_repo_update(id, [is_active |-> a])
    \/ send_response

SpecAuth == Init /\ [][NextAuth]_vars

\* A session: the state after POST /auth/register of a cashier and a
\* POST /auth/login with the same credentials (SessionReached, under
\* SpecAuth, is that state).
TheUser == [id |-> 1, email |-> "a@x.com", hashed_password |-> get_password_hash("pw1"),
            role |-> "cashier", google_id |-> None, is_active |-> TRUE]

InitSession ==
    /\ users = <<TheUser>>
    /\ products = <<>>
    /\ stock = <<>>
    /\ sales = <<>>
    /\ sale_items = <<>>
    /\ tokens = {Jwt(1)}
    /\ resp = NoRequest
    /\ skus_created = {}
    /\ calls = NoCalls
    /\ State = InitialState

SessionReached == users = <<TheUser>> /\ tokens = {Jwt(1)} /\ Idle

NextProducts ==
    \/ \E product_data \in ProductCreate : create_product(Jwt(1), product_data)
    \/ \E query \in ProductQuery : get_products(Jwt(1), query)
    \/ \E id \in ProductIds : get_product(Jwt(1), id)
    \/ \E id \in ProductIds, product_data \in ProductUpdate :
          update_product(Jwt(1), id, product_data)
    \/ \E id \in ProductIds : delete_product(Jwt(1), id)
    \/ send_response

SpecProducts == InitSession /\ [][NextProducts]_vars

\* The catalog with its stock: products are created and soft-deleted, stock
\* rows are created, and the two stock reports are read.
NextStock ==
    \/ \E sku \in Skus :
          create_product(Jwt(1), [name |-> "Cat Bed", sku |-> sku,
                                  category |-> "toys", price |-> <<1999>>])
    \/ \E id \in ProductIds : delete_product(Jwt(1), id)
    \/ \E stock_data \in StockCreate : create_stock(Jwt(1), stock_data)
    \/ \E id \in ProductIds : get_available_stock(NoToken, id)
    \/ \E threshold \in Thresholds : get_low_stock_products(NoToken, threshold)
    \/ send_response

SpecStock == InitSession /\ [][NextStock]_vars

\* Selling: products with stock on hand, sales of up to MaxItems lines, and
\* the soft delete of products that stock and sale items reference.
NextSales ==
    \/ \E sku \in Skus :
          create_product(Jwt(1), [name |-> "Cat Bed", sku |-> sku,
                                  category |-> "toys", price |-> <<1999>>])
    \/ \E id \in ProductIds : delete_product(Jwt(1), id)
    \/ \E id \in 1..MaxProducts :
          create_stock(Jwt(1), [product_id |-> id, quantity |-> 7,
                                status |-> "available", location |-> "store"])
    \/ \E sale_data \in SaleCreate :
          Idle /\ WithinSales(MaxSales, Jwt(1), sale_data)
               /\ create_sale(Jwt(1), sale_data)
    \/ send_response

SpecSales == InitSession /\ [][NextSales]_vars

\* The sale of tests/test_integration.py
TheSale ==
    [items |-> <<[product_id |-> 1, quantity |-> 3, unit_price |-> "15.99"]>>,
     payment_method |-> "cash", total_amount |-> "47.97", reference |-> None,
     discount_amount |-> 0, tax_amount |-> 0, final_amount |-> <<>>,
     status |-> "pending"]

\* Every route that takes the current user, called with each kind of
\* credentials and one or two requests per route.
NextGate ==
    \/ \E tok \in Credentials, sku \in Skus :
          create_product(tok, [name |-> "Cat Bed", sku |-> sku,
                               category |-> "toys", price |-> <<1999>>])
    \/ \E tok \in Credentials :
          get_products(tok, [skip |-> 0, limit |-> 20, category |-> None,
                             search |-> None])
    \/ \E tok \in Credentials : get_product(tok, 1)
    \/ \E tok \in Credentials : update_product(tok, 1, [price |-> <<2999>>])
    \/ \E tok \in Credentials : delete_product(tok, 1)
    \/ \E tok \in Credentials :
          create_stock(tok, [product_id |-> 1, quantity |-> 3, status |-> "available",
                             location |-> "store"])
    \/ \E tok \in Credentials, stock_data \in StockUpdate :
          update_stock_item(tok, 1, stock_data)
    \/ \E tok \in Credentials,
          route \in {"create_stock_entry", "get_incomplete_entries",
                     "complete_stock_entry"} : stock_entry_route(route, tok, <<>>)
    \/ \E tok \in Credentials :
          Idle /\ WithinSales(MaxSales, tok, TheSale) /\ create_sale(tok, TheSale)
    \/ \E tok \in Credentials, query \in SaleQuery : get_sales(tok, query)
    \/ \E tok \in Credentials : get_sale(tok, 1)
    \/ \E tok \in Credentials, sale_data \in SaleUpdate : update_sale(tok, 1, sale_data)
    \/ \E tok \in Credentials : get_total_sales(tok)
    \/ \E tok \in Credentials : get_current_user_info(tok)
    \/ \E tok \in Credentials : get_available_stock(tok, 1)
    \/ \E tok \in Credentials : get_low_stock_products(tok, 5)
    \/ send_response

SpecGate == InitSession /\ [][NextGate]_vars

\* The stock items of one product: rows are created (for products that
\* exist and for one that does not) and updated through PUT /stock/{id}.
StockUpdatePayloads ==
    {Restrict([quantity |-> 7, status |-> "low_stock", location |-> "shelf"], F) :
        F \in SUBSET {"quantity", "status", "location"}}

NextStockItems ==
    \/ create_product(Jwt(1), [name |-> "Cat Bed", sku |-> "CB1",
                               category |-> "toys", price |-> <<1999>>])
    \/ \E id \in ProductIds, quantity \in Quantities,
          status \in {"available", "low_stock"} :
          create_stock(Jwt(1), [product_id |-> id, quantity |-> quantity,
                                status |-> status, location |-> "store"])
    \/ \E id \in 1..(MaxStock + 1), stock_data \in StockUpdatePayloads :
          update_stock_item(Jwt(1), id, stock_data)
    \/ send_response

SpecStockItems == InitSession /\ [][NextStockItems]_vars

\* Two users, each logged in, creating sales and listing them page by page
TheOtherUser ==
    [id |-> 2, email |-> "test@example.com",
     hashed_password |-> get_password_hash("pw1"),
     role |-> "cashier", google_id |-> None, is_active |-> TRUE]

InitSessions ==
    /\ users = <<TheUser, TheOtherUser>>
    /\ products = <<>>
    /\ stock = <<>>
    /\ sales = <<>>
    /\ sale_items = <<>>
    /\ tokens = {Jwt(1), Jwt(2)}
    /\ resp = NoRequest
    /\ skus_created = {}
    /\ calls = NoCalls
    /\ State = InitialState

SessionsReached == users = <<TheUser, TheOtherUser>> /\ tokens = {Jwt(1), Jwt(2)} /\ Idle

MaxSalesListed == 3
SaleListed == [TheSale EXCEPT !.items = <<>>]
Pages == [skip : 0..MaxSalesListed, limit : {1, 2, DefaultLimit}]

NextSalesList ==
    \/ \E tok \in {Jwt(1), Jwt(2)} :
          Idle /\ WithinSales(MaxSalesListed, tok, SaleListed)
               /\ create_sale(tok, SaleListed)
    \/ \E tok \in {Jwt(1), Jwt(2)}, query \in Pages : get_sales(tok, query)
    \/ send_response

SpecSalesList == InitSessions /\ [][NextSalesList]_vars

\* The stock service called directly, for products that exist and that do not
StockCreateAt == [product_id : ProductIds, quantity : Quantities,
                  status : {"available", "low_stock"}, location : {"store", "shelf"}]

NextStockService ==
    \/ create_product(Jwt(1), [name |-> "Cat Bed", sku |-> "CB1",
                               category |-> "toys", price |-> <<1999>>])
    \/ \E stock_data \in StockCreateAt : call_create_stock(stock_data)
    \/ \E stock_data \in StockCreateAt :
          call_create_stock_entry(stock_data, get_current_user(Jwt(1)).user_id)
    \/ send_response

SpecStockService == InitSession /\ [][NextStockService]_vars

\* The repositories of products and of stock, called for ids with and
\* without a row, the products being referenced by stock rows or not
RowIds == 1..(MaxProducts + 1)
StockCreateFor == [product_id : RowIds, quantity : {3}, status : {"available"},
                   location : {"store"}]
FieldsOf(table) == IF table = "products" THEN [name |-> "Dog Bed"] ELSE [quantity |-> 7]

NextRepository ==
    \/ \E sku \in {"CB1", "ca2"} :
          Idle /\ NewId(products) \in RowIds
               /\ create_product(Jwt(1), [name |-> "Cat Bed", sku |-> sku,
                                          category |-> "toys", price |-> <<1999>>])
    \/ \E stock_data \in StockCreateFor :
          Idle /\ NewId(stock) \in RowIds /\ call_create_stock(stock_data)
    \/ \E table \in Tables, id \in RowIds : call_get(table, id)
    \/ \E table \in Tables, id \in RowIds : call_update(table, id, FieldsOf(table))
    \/ \E table \in Tables, id \in RowIds : call_delete(table, id)
    \/ send_response

SpecRepository == InitSession /\ [][NextRepository]_vars

\* Product requests of one user served concurrently
SkuUpdates == {[sku |-> "CB1"], [sku |-> "ca2"]}
ProductOfSku(sku) == [name |-> "Cat Bed", sku |-> sku, category |-> "toys",
                      price |-> <<1999>>]

Registration == [email |-> "test@example.com", password |-> "pw1", role |-> "cashier"]

\* Rows and creations under way stay within the bound on products
WithinProducts ==
    Len(products) + Cardinality({p \in Requests : calls[p].pc = "create"}) < MaxProducts

NextConcurrent ==
    \/ \E p \in Requests, sku \in {"CB1", "ca2"} :
          WithinProducts /\ create_product_get_by_sku(p, ProductOfSku(sku))
    \/ \E p \in Requests : create_product_create(p)
    \/ \E p \in Requests, id \in ProductIds, product_data \in SkuUpdates :
          update_product_update(p, id, product_data)
    \/ \E p \in Requests :
          Len(users) < MaxUsers /\ register_get_by_email(p, Registration)
    \/ \E p \in Requests : register_create_user(p)
    \/ \E p \in Requests : return_response(p)

SpecConcurrent == InitSession /\ [][NextConcurrent]_vars

\* The amounts of a sale: sales with and without a final amount, a discount
\* and a tax, of line items that may carry a discount and a total of their
\* own, and later updates of the amounts.
PlainItem == [product_id |-> 1, quantity |-> 3, unit_price |-> "15.99"]
OwnTotalsItem ==
    [product_id |-> 1, quantity |-> 1, unit_price |-> "31.98",
     discount_amount |-> "5.00", total_amount |-> "15.99"]
AmountItemLists == {<<>>, <<PlainItem>>, <<OwnTotalsItem, PlainItem>>}
SaleCreateAmounts ==
    [items : AmountItemLists, payment_method : {"cash", "card"},
     total_amount : {"47.97", "47.9", "abc"}, reference : {None},
     discount_amount : {0, 500}, tax_amount : {0, 300},
     final_amount : {<<>>, <<3198>>}, status : {"pending"}]
SaleUpdateAmounts ==
    {[total_amount |-> 3198], [discount_amount |-> 500],
     [tax_amount |-> 300, status |-> "completed"], [final_amount |-> 1599]}

NextSaleAmounts ==
    \/ create_product(Jwt(1), [name |-> "Cat Bed", sku |-> "CB1",
                               category |-> "toys", price |-> <<1999>>])
    \/ \E sale_data \in SaleCreateAmounts :
          Idle /\ WithinSales(MaxSales, Jwt(1), sale_data)
               /\ create_sale(Jwt(1), sale_data)
    \/ \E id \in 1..(MaxSales + 1), sale_data \in SaleUpdateAmounts :
          update_sale(Jwt(1), id, sale_data)
    \/ send_response

SpecSaleAmounts == InitSession /\ [][NextSaleAmounts]_vars

\* The rows of sales and of their line items under every operation on
\* sales, products and stock
SecondItem == [product_id |-> 2, quantity |-> 1, unit_price |-> "31.98"]
UnpricedItem == [product_id |-> 1, quantity |-> 1, unit_price |-> "abc"]
RowItemLists ==
    {<<>>, <<PlainItem>>, <<SecondItem>>, <<PlainItem, SecondItem>>,
     <<PlainItem, UnpricedItem>>}
SaleCreateRows ==
    [items : RowItemLists, payment_method : {"cash"}, total_amount : {"47.97", "31.98"},
     reference : {None}, discount_amount : {0}, tax_amount : {0},
     final_amount : {<<>>}, status : {"pending"}]

NextSaleRows ==
    \/ \E sku \in {"CB1", "ca2"} : create_product(Jwt(1), ProductOfSku(sku))
    \/ \E id \in ProductIds : update_product(Jwt(1), id, [name |-> "Dog Bed"])
    \/ \E id \in ProductIds : delete_product(Jwt(1), id)
    \/ \E id \in ProductIds :
          create_stock(Jwt(1), [product_id |-> id, quantity |-> 7,
                                status |-> "available", location |-> "store"])
    \/ \E id \in 1..MaxStock : update_stock_item(Jwt(1), id, [quantity |-> 3])
    \/ \E sale_data \in SaleCreateRows :
          Idle /\ WithinSales(MaxSales, Jwt(1), sale_data)
               /\ create_sale(Jwt(1), sale_data)
    \/ \E id \in 1..(MaxSales + 1), sale_data \in SaleUpdateAmounts :
          update_sale(Jwt(1), id, sale_data)
    \/ send_response

SpecSaleRows == InitSession /\ [][NextSaleRows]_vars

\* Requests served concurrently, each with the session get_db gives it. The
\* event loop runs every coroutine that can go on: a handler ends, by
\* returning or by raising, and get_db goes on after its yield.
NextSessions ==
    \/ \E p \in Requests : get_db(p)
    \/ \E p \in Requests : session_execute(p)
    \/ \E p \in Requests : handler_returns(p)
    \/ \E p \in Requests : handler_raises(p)
    \/ \E p \in Requests : get_db_finally(p)
    \/ \E p \in Requests : return_response(p)

SpecSessions ==
    /\ InitSession /\ [][NextSessions]_vars
    /\ \A p \in Requests :
          /\ WF_vars(handler_returns(p) \/ handler_raises(p))
          /\ WF_vars(get_db_finally(p))

\* The list routes that take skip and limit, over tables with more rows
\* than a page
ListPages == [skip : {0, 1}, limit : {1, 2}]
ProductListQuery ==
    {[skip |-> page.skip, limit |-> page.limit, category |-> category, search |-> search] :
        page \in ListPages, category \in {None, "toys"}, search \in {None, "ca"}}
StockListQuery ==
    {[skip |-> page.skip, limit |-> page.limit, product_id |-> product_id] :
        page \in ListPages, product_id \in {<<>>} \cup {<<id>> : id \in ProductIds}}

NextLists ==
    \/ \E sku \in {"CB1", "ca2"} : create_product(Jwt(1), ProductOfSku(sku))
    \/ \E id \in ProductIds :
          create_stock(Jwt(1), [product_id |-> id, quantity |-> 3,
                                status |-> "available", location |-> "store"])
    \/ Idle /\ WithinSales(MaxSalesListed, Jwt(1), SaleListed)
            /\ create_sale(Jwt(1), SaleListed)
    \/ \E query \in ProductListQuery : get_products(Jwt(1), query)
    \/ \E query \in StockListQuery : get_stock_items(query)
    \/ \E query \in ListPages : get_sales(Jwt(1), query)
    \/ send_response

SpecLists == InitSession /\ [][NextLists]_vars

\* The stock entry routes, called for entry ids, next to the service method
\* that the first of them names
EntryIds == 1..MaxStock

NextStockEntries ==
    \/ create_product(Jwt(1), ProductOfSku("CB1"))
    \/ \E stock_data \in StockCreateAt :
          call_create_stock_entry(stock_data, get_current_user(Jwt(1)).user_id)
    \/ \E tok \in {NoToken, Jwt(1)}, stock_data \in StockCreateAt :
          stock_entry_route("create_stock_entry", tok, stock_data)
    \/ \E tok \in {NoToken, Jwt(1)} :
          stock_entry_route("get_incomplete_entries", tok, <<>>)
    \/ \E tok \in {NoToken, Jwt(1)}, entry_id \in EntryIds :
          stock_entry_route("complete_stock_entry", tok, entry_id)
    \/ send_response

SpecStockEntries == InitSession /\ [][NextStockEntries]_vars

----------------------------------------------------------------------------
\* The frontend's events, sent in any order with any argument
FormValues == {""} \cup Emails \cup Passwords
PageNames == {"login", "dashboard", "products", "stock", "sales", "reports"}

NextFrontend ==
    \/ \E value \in FormValues : handle_email_change(value)
    \/ \E value \in FormValues : handle_password_change(value)
    \/ handle_login
    \/ logout
    \/ \E page \in PageNames : navigate_to(page)

SpecFrontend == Init /\ [][NextFrontend]_vars

(* Claims about authentication, checked under SpecAuth *)

UserWithEmail(email) == {u \in Range(users) : u.email = email}

\* The four failing cases of a login, stated on the users table
UnknownEmail(form) == UserWithEmail(form.username) = {}
NoPasswordSet(form) ==
    \E u \in UserWithEmail(form.username) : u.hashed_password = None
WrongPassword(form) ==
    \E u \in UserWithEmail(form.username) :
        /\ u.hashed_password # None
        /\ ~verify_password(form.password, u.hashed_password)
InactiveAccount(form) ==
    \E u \in UserWithEmail(form.username) :
        /\ u.hashed_password # None
        /\ verify_password(form.password, u.hashed_password)
        /\ ~u.is_active
FailingLogin(form) ==
    UnknownEmail(form) \/ NoPasswordSet(form) \/ WrongPassword(form) \/ InactiveAccount(form)

\* C7: in each of the four failing cases (unknown email, no password set,
\* wrong password, correct credentials on an inactive account)
\* authenticate_user returns the absent value and /auth/login answers with
\* one and the same response, 401 "Incorrect email or password" with no
\* body, issues no token and leaves the store unchanged.
C7_LoginFailuresIndistinguishable ==
    [][\A form \in LoginForm :
          FailingLogin(form) =>
            /\ authenticate_user(form.username, form.password) = <<>>
            /\ (resp'.op = "login" /\ resp'.req = form) =>
                  /\ resp'.status = HTTP_401_UNAUTHORIZED
                  /\ resp'.detail = "Incorrect email or password"
                  /\ resp'.body = NoBody
                  /\ store' = store
                  /\ tokens' = tokens]_vars

\* C7 witness: a login with the right password on a disabled account was
\* answered 401
C7_Witness ==
    /\ resp.op = "login"
    /\ resp.status = HTTP_401_UNAUTHORIZED
    /\ InactiveAccount(resp.req)

\* C8: a user row with email e stays in the table with the same email, and
\* while it is there every POST /auth/register with email e is answered 400
\* "User with this email already exists" and leaves the users table (every
\* row, with its hashed password and role) unchanged.
C8_DuplicateRegistrationRejected ==
    [][/\ \A i \in 1..Len(users) :
            i <= Len(users') /\ users'[i].email = users[i].email
       /\ \A user_data \in UserCreate :
            (UserWithEmail(user_data.email) # {}
               /\ resp'.op = "register" /\ resp'.req = user_data) =>
              /\ resp'.status = HTTP_400_BAD_REQUEST
              /\ resp'.detail = "User with this email already exists"
              /\ users' = users]_vars

\* C8 witness: a second registration of an email, with another password and
\* another role, was rejected
C8_Witness ==
    /\ resp.op = "register"
    /\ resp.status = HTTP_400_BAD_REQUEST
    /\ \E u \in UserWithEmail(resp.req.email) :
          /\ u.hashed_password # get_password_hash(resp.req.password)
          /\ u.role # resp.req.role

----------------------------------------------------------------------------
(* Claims about products, checked under SpecProducts *)

ProductWithSku(sku) == {p \in Range(products) : p.sku = sku}
ProductWithId(id) == {p \in Range(products) : p.id = id}

IsCreateProduct(r, product_data) == r.op = "create_product" /\ r.req = product_data

\* C2 as stated: once a product has been created with SKU s, every later
\* create_product with SKU s is answered 400 and changes no Product row.
C2_OnceCreatedAlwaysConflict ==
    [][\A product_data \in ProductCreate :
          (product_data.sku \in skus_created /\ IsCreateProduct(resp', product_data)) =>
            /\ resp'.status = HTTP_400_BAD_REQUEST
            /\ products' = products]_vars

\* C2 amended: while a Product row (active or not) holds SKU s, every
\* create_product with SKU s is answered 400 "Product with SKU s already
\* exists", creates no Product row and leaves every Product row unchanged.
C2_DuplicateSkuConflict ==
    [][\A product_data \in ProductCreate :
          (ProductWithSku(product_data.sku) # {}
             /\ IsCreateProduct(resp', product_data)) =>
            /\ resp'.status = HTTP_400_BAD_REQUEST
            /\ resp'.detail = "Product with SKU " \o product_data.sku \o " already exists"
            /\ products' = products]_vars

\* C2 witness: a creation with the SKU of a soft-deleted product of another
\* name was answered 400
C2_Witness ==
    /\ resp.op = "create_product"
    /\ resp.status = HTTP_400_BAD_REQUEST
    /\ \E p \in ProductWithSku(resp.req.sku) : p.name # resp.req.name /\ ~p.is_active

IsUpdateProduct(r, id, product_data) ==
    /\ r.op = "update_product"
    /\ r.req = [product_id |-> id, product_data |-> product_data]

\* Exactly the fields of the payload take the supplied values in the row
\* id, and nothing else in the table changes.
OnlySuppliedFieldsChange(before, after, id, product_data) ==
    /\ Len(after) = Len(before)
    /\ \A i \in 1..Len(before) :
          IF before[i].id = id
          THEN /\ DOMAIN after[i] = DOMAIN before[i]
               /\ \A k \in DOMAIN before[i] :
                     after[i][k] = IF k \in DOMAIN product_data
                                   THEN product_data[k] ELSE before[i][k]
          ELSE after[i] = before[i]

\* The store takes the update: no NOT NULL column gets a null, and the
\* supplied SKU is not the SKU of another row.
StoreTakesUpdate(id, product_data) ==
    /\ "name" \in DOMAIN product_data => product_data.name # None
    /\ "sku" \in DOMAIN product_data =>
          /\ product_data.sku # None
          /\ \A p \in Range(products) : p.id # id => p.sku # product_data.sku

----------------------------------------------------------------------------
(* Claims about stock, checked under SpecStock *)

\* The Stock rows of product p that count as available
AvailableRows(p) ==
    SelectSeq(stock, LAMBDA st : st.product_id = p /\ st.status = "available")

\* C4: for every product p and every set of Stock rows,
\* StockService.get_available_stock(p), which is the value that
\* GET /stock/product/{id}/available serves, is the sum of quantity over the
\* Stock rows of p whose status is available; rows of any other status do
\* not contribute, and the value is 0 when p has no available row.
C4_AvailableStockCountsAvailableRows ==
    /\ \A p \in ProductIds :
          StockService_get_available_stock(p) = SumQuantity(AvailableRows(p))
    /\ resp.op = "get_available_stock" /\ resp.status = HTTP_200_OK
          => resp.body.available_quantity = SumQuantity(AvailableRows(resp.req))

\* The active products whose available stock is at most T
LowStock(T) ==
    {p \in Range(products) : p.is_active /\ SumQuantity(AvailableRows(p.id)) <= T}

\* C5: for every threshold T and every catalog,
\* StockService.get_low_stock_products(T) holds exactly one entry for each
\* active product whose available stock (the sum over its available-status
\* rows) is at most T, and no entry for any other product.
C5_LowStockIsExactlyActiveProductsUnderThreshold ==
    \A T \in Thresholds :
        LET entries == StockService_get_low_stock_products(T)
        IN  /\ {e.product_id : e \in Range(entries)} = {p.id : p \in LowStock(T)}
            /\ Len(entries) = Cardinality(LowStock(T))

----------------------------------------------------------------------------
(* Claims about sales and the soft delete, checked under SpecSales *)

IsCreateSale == Idle /\ resp'.op = "create_sale"

\* The line item cannot be stored: its unit price is no decimal, or its
\* product does not exist
ItemFails(item) ==
    \/ Decimal(item.unit_price) = <<>>
    \/ ProductWithId(item.product_id) = {}

\* C1: sale creation is atomic: after a create_sale with N >= 1 line items
\* in which the creation of the N-th SaleItem fails, the Sale rows and the
\* SaleItem rows are the ones before the call.
C1_SaleCreationAtomic ==
    [][IsCreateSale /\ Len(resp'.req.items) >= 1
          /\ ItemFails(resp'.req.items[Len(resp'.req.items)])
       => sales' = sales /\ sale_items' = sale_items]_vars

\* C3: a create_sale with N line items that succeeds, started from a store
\* with no sales, creates exactly 1 Sale row and exactly N SaleItem rows;
\* each of them carries the id of that Sale row, and the i-th carries the
\* product id, the quantity and the unit price of the i-th line item.
C3_SuccessfulSaleCreatesOnePlusNRows ==
    [][IsCreateSale /\ resp'.status = HTTP_200_OK /\ sales = <<>>
       => LET items == resp'.req.items
          IN  /\ Len(sales') = 1
              /\ Len(sale_items') = Len(sale_items) + Len(items)
              /\ SubSeq(sale_items', 1, Len(sale_items)) = sale_items
              /\ \A i \in 1..Len(items) :
                    LET row == sale_items'[Len(sale_items) + i]
                    IN  /\ row.sale_id = sales'[1].id
                        /\ row.product_id = items[i].product_id
                        /\ row.quantity = items[i].quantity
                        /\ <<row.unit_price>> = Decimal(items[i].unit_price)]_vars

\* A sale of two different lines has been created in an empty store
C3_Witness ==
    /\ resp.op = "create_sale" /\ resp.status = HTTP_200_OK
    /\ Len(resp.req.items) = MaxItems
    /\ resp.req.items[1] # resp.req.items[2]
    /\ Len(sales) = 1 /\ Len(sale_items) = MaxItems

IsDeleteProduct == Idle /\ resp'.op = "delete_product"

References(rows, id) == SelectSeq(rows, LAMBDA r : r.product_id = id)

\* The product is in none of the three listings, whatever the page, the
\* query and the category
InNoListing(id) ==
    \A skip \in {0, 1}, limit \in {1, DefaultLimit} :
        /\ \A p \in Range(get_active_products(skip, limit)) : p.id # id
        /\ \A q \in Queries :
              \A p \in Range(search_products(q, skip, limit)) : p.id # id
        /\ \A c \in Categories :
              \A p \in Range(get_by_category(c, skip, limit)) : p.id # id

\* C6: after delete_product(id) on an existing product the Product row is
\* still there and get_product(id) returns it with is_active false; none
\* of list-active, search and by-category returns it; the number of Product
\* rows is unchanged; every Stock and SaleItem row that referenced it is
\* unchanged and still references an existing Product row.
C6_SoftDeleteKeepsRowAndReferences ==
    [][\A id \in ProductIds :
          IsDeleteProduct /\ resp'.req = id /\ ProductWithId(id) # {}
          => /\ Len(products') = Len(products)
             /\ BaseRepository_get(products, id)' # <<>>
             /\ ~BaseRepository_get(products, id)'[1].is_active
             /\ InNoListing(id)'
             /\ References(stock, id)' = References(stock, id)
             /\ References(sale_items, id)' = References(sale_items, id)
             /\ \A r \in Range(References(stock, id)')
                      \cup Range(References(sale_items, id)') :
                   BaseRepository_get(products, r.product_id)' # <<>>]_vars

\* A product that stock and a sale item reference, and that a search for
\* "ca" would find by its name, has been deleted
C6_Witness ==
    /\ resp.op = "delete_product" /\ resp.status = HTTP_200_OK
    /\ References(stock, resp.req) # <<>>
    /\ References(sale_items, resp.req) # <<>>
    /\ \E p \in ProductWithId(resp.req) : ~p.is_active /\ ILike(p.name, "ca")

----------------------------------------------------------------------------
(* Claims about the protected routes, checked under SpecGate *)

\* The routes the claim lists: all /products routes but the category list,
\* all /sales routes, the stock create, update and entry routes
GuardedRoutes ==
    {"create_product", "get_products", "get_product", "update_product",
     "delete_product"}
    \cup {"create_sale", "get_sales", "get_sale", "update_sale", "get_total_sales"}
    \cup {"create_stock", "update_stock_item", "create_stock_entry",
          "get_incomplete_entries", "complete_stock_entry"}

\* C9: on every route that declares the current-user dependency a request
\* without a token is answered 403 and a request with an invalid token 401,
\* and in both cases no service operation runs: the store is unchanged and
\* the response carries no result.
C9_ProtectedRoutesRequireAuthentication ==
    [][Idle /\ resp'.op \in GuardedRoutes /\ resp'.tok \notin tokens
       => /\ resp'.status = IF resp'.tok = NoToken THEN HTTP_403_FORBIDDEN
                            ELSE HTTP_401_UNAUTHORIZED
          /\ resp'.body = NoBody
          /\ store' = store]_vars

\* A delete of an existing, active product was asked for with an invalid
\* token and answered 401
C9_Witness ==
    /\ resp.op = "delete_product" /\ resp.tok = InvalidToken
    /\ resp.status = HTTP_401_UNAUTHORIZED
    /\ \E p \in ProductWithId(resp.req) : p.is_active
    /\ sales # <<>>

----------------------------------------------------------------------------
(* Claims about stock items, checked under SpecStockItems *)

StockFields == {"quantity", "status", "location"}

\* C11: PUT /stock/{stock_id} with a StockUpdate payload applies only the
\* supplied fields: each field of the payload takes the supplied value and
\* each field absent from it keeps its stored value; in particular a
\* payload without quantity leaves the stored quantity unchanged.
C11_StockUpdateAppliesOnlySuppliedFields ==
    [][\A id \in 1..MaxStock :
          Idle /\ resp'.op = "update_stock_item" /\ resp'.req.stock_id = id
               /\ BaseRepository_get(stock, id) # <<>>
          => \A f \in StockFields :
                BaseRepository_get(stock, id)'[1][f]
                    = IF f \in DOMAIN resp'.req.stock_data
                      THEN resp'.req.stock_data[f]
                      ELSE BaseRepository_get(stock, id)[1][f]]_vars

----------------------------------------------------------------------------
(* Claims about the amounts of a sale, checked under SpecSaleAmounts *)

\* The request stores a Sale row
StoresSale == IsCreateSale /\ Len(sales') = Len(sales) + 1

\* C12: in create_sale, when the caller supplies no final_amount the Sale
\* row stored has final_amount equal to the supplied total_amount, whatever
\* discount_amount and tax_amount are; when the caller supplies a
\* final_amount the row has that value.
C12_FinalAmountDefaultsToTotal ==
    [][StoresSale
       => sales'[Len(sales')].final_amount
              = IF resp'.req.final_amount = <<>>
                THEN Decimal(resp'.req.total_amount)[1]
                ELSE resp'.req.final_amount[1]]_vars

\* Sales were stored without a final amount under a discount, and with one
C12_Witness ==
    /\ resp.op = "create_sale" /\ resp.status = HTTP_200_OK
    /\ resp.req.final_amount = <<>> /\ resp.req.discount_amount > 0
    /\ resp.req.tax_amount > 0
    /\ sales # <<>> /\ sales[Len(sales)].final_amount = sales[Len(sales)].total_amount

\* The request updates the amounts of an existing sale, no final amount given
UpdatesAmounts(id) ==
    /\ Idle /\ resp'.op = "update_sale" /\ resp'.req.sale_id = id
    /\ BaseRepository_get(sales, id) # <<>>
    /\ sales' # sales
    /\ "final_amount" \notin DOMAIN resp'.req.sale_data

Computed(sale) ==
    sale.final_amount = sale.total_amount - sale.discount_amount + sale.tax_amount

\* C13: a Sale row whose final_amount no caller supplied has final_amount =
\* total_amount - discount_amount + tax_amount (integer cents): after
\* create_sale without a final_amount, and, for a row that had it, after an
\* update_sale that changes total_amount, discount_amount or tax_amount
\* without supplying final_amount.
C13_FinalAmountIsTotalMinusDiscountPlusTax ==
    [][/\ (StoresSale /\ resp'.req.final_amount = <<>>)
              => Computed(sales'[Len(sales')])
       /\ \A id \in 1..MaxSales :
              (UpdatesAmounts(id) /\ Computed(BaseRepository_get(sales, id)[1]))
                  => Computed(BaseRepository_get(sales, id)[1])']_vars

\* C14: every SaleItem row stored by create_sale has total_amount =
\* unit_price x quantity - discount_amount, discount_amount being the value
\* stored in the row, also when the line item of the request carries a
\* discount_amount or a total_amount of its own (integer cents).
C14_ItemTotalIsPriceTimesQuantityMinusDiscount ==
    \A i \in 1..Len(sale_items) :
        sale_items[i].total_amount
            = sale_items[i].unit_price * sale_items[i].quantity
                  - sale_items[i].discount_amount

\* A row was stored for a line item carrying its own discount and total
C14_Witness ==
    /\ resp.op = "create_sale" /\ resp.status = HTTP_200_OK
    /\ \E i \in 1..Len(resp.req.items) :
          /\ "discount_amount" \in DOMAIN resp.req.items[i]
          /\ "total_amount" \in DOMAIN resp.req.items[i]
          /\ Decimal(resp.req.items[i].total_amount)[1]
                 # Decimal(resp.req.items[i].unit_price)[1] * resp.req.items[i].quantity
    /\ Len(sale_items) = Len(resp.req.items)
    /\ \A i \in 1..Len(sale_items) : sale_items[i].discount_amount = 0

----------------------------------------------------------------------------
(* Claims about the creation of stock, checked under SpecStockService and  *)
(* SpecStockItems                                                          *)

StockCreators == {"StockService.create_stock", "StockService.create_stock_entry"}

C16_DomainErrorsAnswerClientStatus ==
    /\ (/\ resp.op = "create_stock" /\ resp.tok \in tokens
        /\ BaseRepository_get(products, resp.req.product_id) = <<>>)
           => resp.status \in {HTTP_400_BAD_REQUEST, HTTP_404_NOT_FOUND}
    /\ (/\ resp.op = "create_product" /\ resp.tok \in tokens
        /\ resp.status # HTTP_200_OK)
           => resp.status = HTTP_400_BAD_REQUEST

----------------------------------------------------------------------------
(* Claims about the list of a user's sales, checked under SpecSalesList *)

SalesOf(user_id) == {sales[i] : i \in {j \in 1..Len(sales) : sales[j].created_by = user_id}}

Newer(user_id, created_at) == {s \in SalesOf(user_id) : s.created_at > created_at}
NotOlder(user_id, created_at) == {s \in SalesOf(user_id) : s.created_at >= created_at}

\* The page answered is a page of the user's sales, newest first
PageOfOwnSales(user_id, skip, limit, page) ==
    /\ \A i \in 1..Len(page) :
          /\ page[i].created_by = user_id
          /\ \E s \in SalesOf(user_id) : s.id = page[i].id /\ s.created_at = page[i].created_at
          /\ Cardinality(Newer(user_id, page[i].created_at)) <= skip + i - 1
          /\ Cardinality(NotOlder(user_id, page[i].created_at)) >= skip + i
    /\ \A i, j \in 1..Len(page) :
          i < j => page[i].created_at >= page[j].created_at /\ page[i].id # page[j].id
    /\ Len(page) <= limit
    /\ Len(page) = IF Cardinality(SalesOf(user_id)) - skip > limit THEN limit
                   ELSE IF Cardinality(SalesOf(user_id)) > skip
                        THEN Cardinality(SalesOf(user_id)) - skip ELSE 0

\* Whatever order the store gives to sales created at the same time, the
\* pages of a size cover every sale of the user
EverySaleOnSomePage(user_id) ==
    \A limit \in {1, 2}, ordered \in OrderedByCreatedAtDesc(
                                      SelectSeq(sales, LAMBDA s : s.created_by = user_id)) :
        \A s \in SalesOf(user_id) :
            \E n \in 0..MaxSalesListed :
                \E i \in 1..Len(OffsetLimit(ordered, n * limit, limit)) :
                    OffsetLimit(ordered, n * limit, limit)[i] = s

\* C18: GET /sales/ for an authenticated user returns only sales whose
\* created_by is that user, newest first, without the first skip of them and
\* at most limit of them; every sale the user created is on some page and a
\* sale created by another user is on none.
C18_SalesListIsTheUsersNewestFirst ==
    /\ (resp.op = "get_sales" /\ resp.status = HTTP_200_OK)
           => PageOfOwnSales(get_current_user(resp.tok).user_id,
                             resp.req.skip, resp.req.limit, resp.body)
    /\ \A user_id \in 1..MaxUsers :
          /\ EverySaleOnSomePage(user_id)
          /\ \A query \in Pages :
                \A result \in get_sales_by_user(user_id, query.skip, query.limit) :
                    \A i \in 1..Len(result) : result[i].created_by = user_id

\* The second page of a user's sales was answered while the other user had
\* sales too, two of the user's sales having the same creation time
C18_Witness ==
    /\ resp.op = "get_sales" /\ resp.status = HTTP_200_OK
    /\ resp.req.skip = 1 /\ resp.req.limit = 1 /\ Len(resp.body) = 1
    /\ SalesOf(2) # {}
    /\ get_current_user(resp.tok).user_id = 1
    /\ \E s, t \in SalesOf(1) : s.id # t.id /\ s.created_at = t.created_at

----------------------------------------------------------------------------
(* Claims about the generic repository, checked under SpecRepository *)

RepositoryMethods == {"BaseRepository.get", "BaseRepository.update", "BaseRepository.delete"}

\* The call answered is a call of the method on a table for an id
IsCall(method, table, id) ==
    /\ Idle /\ resp'.op = method
    /\ resp'.req.table = table /\ resp'.req.id = id

\* For an id with no row, get and update return None and delete returns
\* False, nothing is raised and the store is unchanged
MissingIdIsAValue(table, id) ==
    \A method \in RepositoryMethods :
        (IsCall(method, table, id) /\ BaseRepository_get(Rows(table), id) = <<>>)
            => /\ resp'.detail = ""
               /\ resp'.body = IF method = "BaseRepository.delete" THEN <<FALSE>> ELSE <<>>
               /\ store' = store

\* delete returns True, exactly the row of the id is gone, a get that
\* follows returns None and a second delete returns False
Deleted(table, id) ==
    /\ resp'.detail = "" /\ resp'.body = <<TRUE>>
    /\ Rows(table)' = SelectSeq(Rows(table), LAMBDA row : row.id # id)
    /\ Len(Rows(table)') = Len(Rows(table)) - 1
    /\ \A other \in Tables \ {table} : Rows(other)' = Rows(other)
    /\ repo_get(table, id)'.value = <<>>
    /\ repo_delete(table, id)' = Outcome("", Rows(table)', <<FALSE>>)

\* C19 as stated: in the generic repository a missing id is a value and not
\* a fault (get and update return absent, delete returns false, the store is
\* unchanged), and delete(id) on an existing row returns true, removes
\* exactly that row, after which get(id) returns absent and a second
\* delete(id) returns false.
C19_DeleteOfAnExistingRowRemovesIt ==
    [][\A table \in Tables, id \in RowIds :
          /\ MissingIdIsAValue(table, id)
          /\ (/\ IsCall("BaseRepository.delete", table, id)
              /\ BaseRepository_get(Rows(table), id) # <<>>)
                 => Deleted(table, id)]_vars

\* C19, amended: as stated for a missing id; delete(id) on an existing row
\* that no foreign key of another row points to returns true and removes
\* exactly that row (get(id) then returns absent, a second delete(id)
\* false); on a row that is referenced it raises the store's integrity
\* error and removes nothing.
C19_DeleteRemovesAnUnreferencedRow ==
    [][\A table \in Tables, id \in RowIds :
          /\ MissingIdIsAValue(table, id)
          /\ (/\ IsCall("BaseRepository.delete", table, id)
              /\ BaseRepository_get(Rows(table), id) # <<>>)
                 => IF Referenced(table, id)
                    THEN resp'.detail = "IntegrityError" /\ store' = store
                    ELSE Deleted(table, id)]_vars

\* A product was deleted while another product, referenced by a stock row,
\* stayed
C19_Witness ==
    /\ resp.op = "BaseRepository.delete" /\ resp.body = <<TRUE>>
    /\ resp.req.table = "products"
    /\ Len(products) = 1 /\ products[1].id # resp.req.id
    /\ Referenced("products", products[1].id)

----------------------------------------------------------------------------
(* Claims about concurrent product requests, checked under SpecConcurrent *)

\* C20: in every reachable state, under every interleaving of concurrent
\* create_product and update_product calls against a store with a unique
\* constraint on sku, no two Product rows have the same SKU.
C20_NoTwoProductsShareASku ==
    \A i, j \in 1..Len(products) : i # j => products[i].sku # products[j].sku

\* A creation passed its look-up and was then refused by the store, the sku
\* having been taken by a concurrent request
C20_Witness ==
    \E p \in Requests :
        /\ calls[p].op = "create_product" /\ calls[p].pc = "done"
        /\ calls[p].status = HTTP_500_INTERNAL_SERVER_ERROR
        /\ \E i \in 1..Len(products) : products[i].sku = calls[p].req.sku
        /\ \E q \in Requests \ {p} : calls[q].pc = "done" /\ calls[q].status = HTTP_200_OK

\* The request lost to the store's unique constraint
LostToConstraint(p) ==
    /\ calls[p].pc = "done"
    /\ \/ /\ calls[p].op = "create_product"
          /\ \E i \in 1..Len(products) : products[i].sku = calls[p].req.sku
          /\ calls[p].status # HTTP_200_OK
       \/ /\ calls[p].op = "register"
          /\ \E i \in 1..Len(users) : users[i].email = calls[p].req.email
          /\ calls[p].status # HTTP_200_OK
       \/ /\ calls[p].op = "update_product"
          /\ \E i \in 1..Len(products) :
                /\ products[i].sku = calls[p].req.product_data.sku
                /\ products[i].id # calls[p].req.product_id
          /\ BaseRepository_get(products, calls[p].req.product_id) # <<>>

\* C21: a uniqueness violation found by the store's constraint and not by
\* the look-up before it is answered as Conflict (400 or 409): the loser of
\* two create_product requests with one SKU or of two registrations with one
\* email that both passed the look-up, and an update_product that sets a SKU
\* already in use, end with a Conflict response and not with a 500.
C21_ConstraintViolationAnswersConflict ==
    \A p \in Requests :
        LostToConstraint(p) => calls[p].status \in 400..499

----------------------------------------------------------------------------
(* Claims about the rows of sales and of their line items, checked under   *)
(* SpecSaleRows                                                            *)

\* C22: in every reachable state every SaleItem row references an existing
\* Sale row and an existing Product row, whatever the sequence of create_sale
\* (also one that fails partway), update_sale, product creations, updates and
\* deletions and stock operations.
C22_SaleItemsReferenceExistingRows ==
    \A i \in 1..Len(sale_items) :
        /\ BaseRepository_get(sales, sale_items[i].sale_id) # <<>>
        /\ BaseRepository_get(products, sale_items[i].product_id) # <<>>

\* A sale failed at its second line item; the first line item is stored,
\* for a product that had been deleted before the sale
C22_Witness ==
    /\ resp.op = "create_sale" /\ resp.status = HTTP_500_INTERNAL_SERVER_ERROR
    /\ Len(resp.req.items) = 2
    /\ Len(sales) = 1 /\ Len(sale_items) = 1
    /\ \E p \in ProductWithId(sale_items[1].product_id) : ~p.is_active

\* The SaleItem rows of a sale
ItemsOf(sale_id) ==
    {sale_items[i] : i \in {j \in 1..Len(sale_items) : sale_items[j].sale_id = sale_id}}

\* C23: in every state reached after a create_sale has returned or failed,
\* every Sale row has at least one SaleItem row; a create_sale with an empty
\* list of items stores no Sale row.
C23_EverySaleHasAnItem ==
    [][IsCreateSale
       => /\ \A id \in 1..MaxSales :
                 BaseRepository_get(sales, id)' # <<>> => ItemsOf(id)' # {}
          /\ resp'.req.items = <<>> => sales' = sales]_vars

\* create_sale leaves the rows of stock and of products as they are, and
\* with them the available stock of every product
StockUntouched ==
    /\ stock' = stock /\ products' = products
    /\ \A id \in ProductIds :
          StockService_get_available_stock(id)' = StockService_get_available_stock(id)

\* C24: create_sale does not deduct stock: after every create_sale, whether
\* it succeeds or fails, every Stock row and every Product row is as before,
\* and so is the available stock of every product.
C24_SaleLeavesStockUntouched ==
    [][IsCreateSale => StockUntouched]_vars

\* A sale of a product with stock was stored, and the stock is what it was
C24_Witness ==
    /\ resp.op = "create_sale" /\ resp.status = HTTP_200_OK
    /\ Len(sale_items) = 2
    /\ \A i \in 1..Len(sale_items) :
          StockService_get_available_stock(sale_items[i].product_id) = 7
    /\ Len(stock) = MaxStock

RECURSIVE SumTotalAmount(_)
SumTotalAmount(rows) ==
    IF rows = {} THEN 0
    ELSE LET row == CHOOSE r \in rows : TRUE
         IN  row.total_amount + SumTotalAmount(rows \ {row})

\* C29: the total_amount of every sale stored by a create_sale that
\* succeeded is the sum of the total_amount of its SaleItem rows (integer
\* cents).
C29_SaleTotalIsSumOfItemTotals ==
    [][(IsCreateSale /\ resp'.status = HTTP_200_OK)
       => \A id \in 1..MaxSales :
              sales'[Len(sales')].id = id
                  => sales'[Len(sales')].total_amount = SumTotalAmount(ItemsOf(id))']_vars

----------------------------------------------------------------------------
(* Claims about the accounts that get a token, checked under SpecAuth *)

\* C25: no access token is issued for an inactive account by an
\* authentication route: neither POST /auth/login nor POST /auth/google
\* answers with a token for a user whose is_active is false.
C25_NoTokenForInactiveAccount ==
    [][\A id \in 1..MaxUsers :
          (/\ Idle /\ resp'.op \in {"login", "google_auth"}
           /\ resp'.status = HTTP_200_OK /\ resp'.body = Jwt(id))
              => BaseRepository_get(users, id)'[1].is_active]_vars

----------------------------------------------------------------------------
(* Claims about the database session of a request, checked under           *)
(* SpecSessions                                                            *)

SessionOpen(p) == calls[p].op = "request" /\ calls[p].req.open

\* C26: every database session that get_db acquires for a request is
\* eventually closed, whether the handler returns or raises; no request ends
\* with its session open, and a request has one session and no more.
C26_SessionEventuallyClosed ==
    /\ [](\A p \in Requests :
             /\ calls[p].op = "request" => calls[p].req.opened = 1
             /\ (calls[p].op = "request" /\ calls[p].pc = "done") => ~calls[p].req.open)
    /\ \A p \in Requests : SessionOpen(p) ~> ~SessionOpen(p)

\* A request whose handler raised after its statements has ended, its
\* session closed, while another request holds its session
C26_Witness ==
    \E p, q \in Requests :
        /\ calls[p].op = "request" /\ calls[p].pc = "done"
        /\ calls[p].status = HTTP_500_INTERNAL_SERVER_ERROR
        /\ calls[p].req.statements = MaxStatements /\ ~calls[p].req.open
        /\ SessionOpen(q)

----------------------------------------------------------------------------
(* Claims about the list routes, checked under SpecLists *)

ListRoutes == {"get_products", "get_stock_items", "get_sales"}

\* The entities the request matches, before skip and limit
Matching(op, query) ==
    IF op = "get_products"
    THEN Len(SelectSeq(products,
                 LAMBDA p : /\ p.is_active
                            /\ IF query.search # None
                               THEN ILike(p.name, query.search) \/ ILike(p.sku, query.search)
                               ELSE query.category # None => p.category = query.category))
    ELSE IF op = "get_stock_items"
    THEN Len(SelectSeq(stock,
                 LAMBDA st : query.product_id # <<>> => st.product_id = query.product_id[1]))
    ELSE Len(SelectSeq(sales, LAMBDA sale : sale.created_by = get_current_user(resp.tok).user_id))

\* C27: every list route that takes skip and limit bounds its response:
\* GET /products/, GET /stock/ (with or without product_id) and GET /sales/
\* answer at most limit entities, starting after the first skip of the
\* entities that match.
C27_ListsAreBoundedByLimit ==
    (resp.op \in ListRoutes /\ resp.status = HTTP_200_OK)
        => /\ Len(resp.body) <= resp.req.limit
           /\ Len(resp.body) <= Matching(resp.op, resp.req) - resp.req.skip
                  \/ resp.body = <<>>

----------------------------------------------------------------------------
(* Claims about the stock entries, checked under SpecStockEntries *)

\* C28: POST /stock/entries/{entry_id}/complete sets is_completed and
\* completed_at on the StockEntry row of the id and on no other, after which
\* the entry is not in the incomplete-entries listing of its creator; for an
\* entry id with no row the route answers 404 and changes nothing.
C28_CompleteStockEntry ==
    (resp.op = "complete_stock_entry" /\ resp.tok \in tokens)
        => IF BaseRepository_get(stock_entries, resp.req) = <<>>
           THEN resp.status = HTTP_404_NOT_FOUND
           ELSE /\ resp.status = HTTP_200_OK
                /\ BaseRepository_get(stock_entries, resp.req)[1].is_completed

-----------------------------------------------------------------------------
(* Claims about the frontend *)

\* handle_login with an empty email or an empty password leaves an
\* unauthenticated session unauthenticated and sets login_error
EmptyLoginIsRefused ==
    (handle_login /\ (State.login_email = "" \/ State.login_password = "")
                  /\ ~State.is_authenticated)
        => /\ ~State'.is_authenticated
           /\ State'.login_error # ""

\* C30: in the frontend State, after any sequence of handle_email_change,
\* handle_password_change, handle_login, logout and navigate_to(page), a
\* session that is not authenticated shows only the login page
\* (is_authenticated = false implies current_page = "login"), and
\* handle_login with an empty email or an empty password leaves
\* is_authenticated false and sets login_error.
C30_UnauthenticatedSessionShowsLogin ==
    /\ [](~State.is_authenticated
             => (State.current_page = "login" /\ main_content = "login"))
    /\ [][EmptyLoginIsRefused]_vars

====
